---- MODULE Spec2Model ----
(***************************************************************************)
(* Event-bus runtime of the agent platform.                                *)
(*                                                                         *)
(*   Part 1  BusDriver (packages/runtime/src/internal/BusDriver.ts): one   *)
(*           driver per agent on one shared SystemBus; receive() is an     *)
(*           async generator fed by a bus subscription through an          *)
(*           AsyncQueue.                                                   *)
(*   Part 2  the BusDriver revision that hands events over through an      *)
(*           inline array and a resolveNext callback instead of the        *)
(*           AsyncQueue (one driver, agent "a1").                          *)
(*   Part 3  the browser-side mirror (packages/mirror/src/runtime/         *)
(*           MirrorContainer.ts): MirrorContainersAPI, MirrorContainer,    *)
(*           MirrorImagesAPI and MirrorImage, their pending-request maps   *)
(*           and timers, and the events the peer delivers from the server. *)
(*   Part 4  MirrorContainer and MirrorAgent (same file and                *)
(*           packages/types/src/runtime/internal/container/Container.ts):  *)
(*           the agents of one mirror container, their lifecycle and       *)
(*           state, and the requests they send upstream.                   *)
(*   Part 5  RuntimeContainer and the agents API of RuntimeImpl            *)
(*           (packages/runtime/src/internal/RuntimeContainer.ts): the      *)
(*           registry of agents, destroyAgent and destroyAllAgents with    *)
(*           their await on agent.destroy(), and the lifecycle             *)
(*           notifications emitted; the dispose of a container and of the  *)
(*           runtime.                                                      *)
(*   Part 6  the images API of RuntimeImpl (snapshot, list, get, delete    *)
(*           and the resume of an image into its container).               *)
(*   Part 7  DriverReactor (packages/agentx-core/src/driver/               *)
(*           DriverReactor.ts): handleUserMessage forwards the driver's    *)
(*           stream to the event bus and turns a failure into an           *)
(*           error_message event.                                          *)
(*   Part 8  the events API of RuntimeImpl (on, onAll, emit and the        *)
(*           unsubscribe functions they return).                           *)
(*   Part 9  AgentEventBus: the event Subject, the outbound replay buffer  *)
(*           and the inbound view.                                         *)
(*   Part 10 ReactorRegistry: register, initialize and destroy with their  *)
(*           awaits on the reactors.                                       *)
(*   Part 11 WebSocketDriver (packages/agentx-framework/src/ws/            *)
(*           WebSocketDriver.ts): the sendMessage stream, abort and        *)
(*           destroy.                                                      *)
(***************************************************************************)
EXTENDS Integers, Sequences, FiniteSets, Bags, TLC

\* ------------------------------------------------------------------ bounds

\* Total number of events emitted on the shared bus in one behaviour.
MaxBus == 4

\* Number of receive() calls (exchanges) one driver starts in one behaviour.
MaxExchanges == 2

\* Number of mirror requests (create, run, snapshot, list, resume) sent in one
\* behaviour; requestIds are 1..MaxRequests.
MaxRequests == 3

\* Number of MirrorContainer.run() calls in one behaviour of the MirrorAgent
\* part; their requestIds are 1..MaxRuns.  It also bounds the MirrorAgent
\* objects constructed in one behaviour.
MaxRuns == 2

\* RuntimeContainer.runAgent calls in one behaviour (agent ids 1..MaxAgents).
MaxAgents == 2

\* destroyAgent / destroyAllAgents calls suspended at an await at one time.
MaxCalls == 2

\* container_destroyed notifications after which no further dispose starts.
MaxDisposes == 2

\* Messages in one agent's session.
MaxMessages == 2

\* images.snapshot calls in one behaviour (image ids 1..MaxImages).
MaxImages == 2

\* user_message events consumed by the DriverReactor in one behaviour.
MaxUserMessages == 2

\* events.on / events.onAll calls on a RuntimeImpl in one behaviour.
MaxRegistrations == 3

\* Events the bus hands to RuntimeImpl.emit in one behaviour.
MaxEmits == 2

\* AgentEventBus.emit calls in one behaviour; more than the replay buffer
\* holds.
MaxAgentEvents == 11

\* The reactors that may be registered with a ReactorRegistry (ids
\* 1..MaxReactors).
MaxReactors == 3

\* WebSocketDriver.sendMessage calls in one behaviour.
MaxSends == 2

\* Messages the WebSocket delivers (onmessage) in one behaviour.
MaxWsMessages == 3

\* ------------------------------------------------------------- vocabulary

\* The agents sharing the bus; each owns one BusDriver (config.agentId).
Agents == {"a1", "a2"}

\* `source` of an event object that has no source field (undefined).
NoSource == "none"

\* BusDriver.isDriveableEvent: the driveableTypes array.
driveableTypes ==
    {"message_start", "message_delta", "message_stop",
     "text_content_block_start", "text_delta", "text_content_block_stop",
     "tool_use_content_block_start", "input_json_delta",
     "tool_use_content_block_stop", "tool_call", "tool_result", "interrupted"}

\* BusDriver.isDriveableEvent: source must be "environment" and the type
\* must be in the allow-list.
isDriveableEvent(event) ==
    IF event.source # "environment" THEN FALSE
    ELSE event.type \in driveableTypes

\* The loop's and the handler's test `type === "message_stop" || type === "interrupted"`.
isTerminal(type) == type = "message_stop" \/ type = "interrupted"

\* BusDriver.toStreamEvent: the StreamEvent type of a DriveableEvent type.
\* Two types are renamed, every other type passes through.
streamType(type) ==
    CASE type = "tool_use_content_block_start" -> "tool_use_start"
      [] type = "tool_use_content_block_stop"  -> "tool_use_stop"
      [] OTHER -> type

\* BusDriver.toStreamEvent: source, category, intent and context are dropped;
\* type is mapped and the payload is carried over.  `data` stands for the
\* payload and is the event's emission number on the bus, so that two
\* emissions never carry the same payload.
toStreamEvent(event) == [type |-> streamType(event.type), data |-> event.data]

\* What the environment, the presenter and the container put on the bus:
\*   ClaudeReceptor events (source "environment", context.agentId set),
\*   BusPresenter output (source "agent", same type names),
\*   container lifecycle notifications.
EmitKinds ==
    [type : {"tool_use_content_block_start", "message_stop", "interrupted"},
     source : {"environment"}, agentId : Agents]
    \cup [type : {"message_stop"}, source : {"agent"}, agentId : Agents]
    \cup {[type |-> "agent_registered", source |-> "container", agentId |-> "a1"]}

\* What an Effector that answers synchronously emits inside
\* producer.emit(user_message), before receive() reaches its for-await.
SyncBursts(d) ==
    LET td == [type |-> "text_delta", source |-> "environment", agentId |-> d]
        stop == [type |-> "message_stop", source |-> "environment", agentId |-> d]
    IN  {<< >>, <<td>>, <<td, stop>>}

\* The event types and the handler functions of the runtime events API.
EventTypes == {"text_delta", "agent_registered"}
Handlers == {"h1", "h2"}

\* ------------------------------------------------------------------ state

VARIABLES
    driver,     \* driver[d]: the BusDriver of agent d and its current receive() call
    busLog,     \* every event emitted on the SystemBus so far, in emission order
    legacy,     \* the inline-array BusDriver of agent "a1" and its receive() call
    mirror,     \* the MirrorRuntime's objects (see InitMirror)
    lastEvent,  \* type and requestId of the server event whose delivery changed
                \* the mirror state in the last step; NoEvent after a local step
                \* and after a delivery that changed nothing
    mirrorAgents,   \* one MirrorContainer ("c1") and the MirrorAgent objects
                    \* it has constructed (see InitMirrorAgents)
    container,      \* one RuntimeContainer and its RuntimeAgents (see
                    \* InitContainer)
    reactor,        \* one DriverReactor and its handleUserMessage calls (see
                    \* InitReactor)
    runtimeEvents,  \* the event handlers of one RuntimeImpl and the calls
                    \* made to them (see InitRuntimeEvents)
    agentBus,       \* one AgentEventBus and its subscribers (see InitAgentBus)
    reactorRegistry, \* one ReactorRegistry and its reactors (see
                    \* InitReactorRegistry)
    wsDriver        \* one WebSocketDriver and its stream (see InitWsDriver)

vars == <<driver, busLog, legacy, mirror, lastEvent, mirrorAgents, container, reactor,
          runtimeEvents, agentBus, reactorRegistry, wsDriver>>

\* driver[d] fields
\*   aborted     this.aborted
\*   items       AsyncQueue: the queued events
\*   closed      AsyncQueue: close() has been called
\*   timedOut    receive(): let timedOut
\*   timeoutId   receive(): TRUE while the setTimeout is pending
\*   subscribed  receive(): TRUE from consumer.onAny(...) until unsubscribe()
\*   pc          where the generator is: "idle" (never pulled), "waiting" (in
\*               for-await, awaiting the queue), "yielded" (suspended at yield),
\*               "done" (returned), "threw" (timeout error), "returned" (the
\*               caller ended the generator at a yield)
\*   event       the loop variable `event` of the last iteration (its type)
\*   yielded     the StreamEvents handed to the caller by this exchange
\*   start       number of bus events emitted before this exchange's user_message
\*   exchanges   number of receive() calls so far
\*   interruptAt number of bus events emitted when interrupt() was first called
\*               in this exchange, -1 if it was not
\*   sync        number of events the Effector emitted inside this exchange's
\*               emit(user_message) call
InitDriver ==
    [aborted |-> FALSE, items |-> << >>, closed |-> FALSE, timedOut |-> FALSE,
     timeoutId |-> FALSE, subscribed |-> FALSE, pc |-> "idle", event |-> "",
     yielded |-> << >>, start |-> 0, exchanges |-> 0, interruptAt |-> -1,
     sync |-> 0]

\* legacy fields: aborted, timedOut, timeoutId, subscribed, event, yielded,
\* start, exchanges as in driver[d], and
\*   events      receive(): const events
\*   resolveNext receive(): TRUE while resolveNext holds a resolver
\*   done        receive(): let done
\*   pc          "idle", "loop" (at the while condition), "waiting" (awaiting
\*               the promise whose resolver is resolveNext), "yielded", "done",
\*               "threw", "returned"
InitLegacy ==
    [aborted |-> FALSE, events |-> << >>, resolveNext |-> FALSE, done |-> FALSE,
     timedOut |-> FALSE, timeoutId |-> FALSE, subscribed |-> FALSE, pc |-> "idle",
     event |-> "", yielded |-> << >>, start |-> 0, exchanges |-> 0]

\* Container ids the caller assigns, agent and image ids the server generates.
ContainerIds == {"c1", "c2"}
AgentIds == {"g1", "g2"}
ImageIds == {"i1"}

\* A field that is absent from an event's data (undefined).
NoId == "none"

NoEvent == [type |-> "none", requestId |-> 0]

\* mirror fields
\*   requests          one entry per request sent, requestId = index:
\*                       kind    "create" | "run" | "snapshot" | "list" | "resume"
\*                       status  of the promise: "pending" | "resolved" | "rejected"
\*                       error   the rejection's message ("" if none)
\*                       timer   TRUE while the request's setTimeout is pending
\*                       obj     the MirrorContainer (run) or MirrorImage (resume)
\*                               object the request was made on, else 0
\*   pendingCreates    MirrorContainersAPI.pendingCreates (its keys)
\*   containers        MirrorContainersAPI.containers: containerId -> object, 0 if absent
\*   cobjs             the MirrorContainer objects constructed so far:
\*                       containerId, agents (keys of the agents map),
\*                       pendingRuns (keys), agentCount (_agentCount)
\*   pendingSnapshots  MirrorImagesAPI.pendingSnapshots (its keys)
\*   pendingLists      MirrorImagesAPI.pendingLists (its keys)
\*   images            MirrorImagesAPI.images: imageId -> object, 0 if absent
\*   iobjs             the MirrorImage objects constructed so far:
\*                       imageId, containerId, pendingResume (the request whose
\*                       resolve/reject pair is held, 0 for null)
InitMirror ==
    [requests |-> << >>, pendingCreates |-> {}, containers |-> [c \in ContainerIds |-> 0],
     cobjs |-> << >>, pendingSnapshots |-> {}, pendingLists |-> {}, images |-> [i \in ImageIds |-> 0],
     iobjs |-> << >>]

\* The request event an operation sent upstream; `requestId` tells whether the
\* event carries one (createMirrorRequest sets none itself: a request has
\* one only when its sender put it in `data`).
NoRequest == [type |-> "none", requestId |-> FALSE]

\* The operation of the last step on the MirrorContainer or a MirrorAgent.
NoOp == [op |-> "none", agentId |-> NoId, containerId |-> NoId, obj |-> 0, result |-> ""]

\* mirrorAgents fields
\*   agents       MirrorContainer.agents: agentId -> MirrorAgent object, 0 if absent
\*   agentCount   MirrorContainer._agentCount
\*   objs         the MirrorAgent objects constructed so far:
\*                  agentId, lifecycle (_lifecycle), state (_state)
\*   pendingRuns  MirrorContainer.pendingRuns (its keys)
\*   timers       one entry per run() call, requestId = index: TRUE while the
\*                call's setTimeout is pending
\*   sent         the event the last step sent with peer.sendUpstream
\*   lastOp       the last step: op (method name or server event type), the
\*                event's agentId and containerId, the MirrorAgent object it
\*                acted on (0 if none) and what the call returned or threw;
\*                NoOp after a run response or forwarded event whose
\*                handling changed nothing
InitMirrorAgents ==
    [agents |-> [a \in AgentIds |-> 0], agentCount |-> 0, objs |-> << >>,
     pendingRuns |-> {}, timers |-> << >>, sent |-> NoRequest, lastOp |-> NoOp]

\* container fields (the server-side runtime):
\*   registry   RuntimeImpl.containerRegistry: the ids of the live
\*              RuntimeContainers, in insertion order
\*   records    the ids of the container records in the persistence
\*   agents     per container, the keys of RuntimeContainer.agents in
\*              insertion order (a Map iterates in insertion order)
\*   lifecycle  the lifecycle of every RuntimeAgent created so far, by id
\*   owner      the containerId of every RuntimeAgent created so far
\*   sessions   the messages of every agent's session, in order; message
\*              <<a, k>> is the k-th message agent a received
\*   images     the image records saved in the persistence, by imageId:
\*              [containerId, agentId, messages, stored], stored FALSE once
\*              the record is deleted
\*   emitted    the bag of lifecycle notifications the containers emitted on
\*              the bus: how often each [type, containerId, agentId] was
\*              emitted (when it was emitted is seen in the step that emits)
\*   calls      the bag of destroyAgent / destroyAllAgents / dispose calls
\*              suspended at "await agent.destroy()": [op, containerId, ids,
\*              i], where ids is the list the call works through in
\*              container containerId and ids[i] the agent whose destroy()
\*              is awaited
\*   returned   observation: the call that completed in the last step and
\*              its result; NoReturn after a step in which a call was
\*              suspended
NoReturn == [op |-> "none", containerId |-> NoId, ids |-> << >>, agentId |-> 0, result |-> ""]

InitContainer ==
    [registry |-> << >>, records |-> {}, agents |-> [c \in ContainerIds |-> << >>],
     lifecycle |-> << >>, owner |-> << >>, sessions |-> << >>, images |-> << >>,
     emitted |-> EmptyBag, calls |-> EmptyBag, returned |-> NoReturn]

\* reactor fields
\*   context          this.context is not null
\*   subscribed       initialize has subscribed handleUserMessage to the
\*                    user_message events
\*   abortController  the call whose AbortController this.abortController
\*                    refers to; 0 is null
\*   aborted          aborted[i]: signal.aborted of the AbortController that
\*                    call i created
\*   calls            calls[i]: the handleUserMessage call for user message i
\*     pc             "pulling" (awaiting the driver's stream), "completed"
\*                    (resolved from the try block), "caught" (resolved from
\*                    the catch block), "rejected", "noContext" (returned at
\*                    the first check)
\*     pos            the number of stream events the call has pulled
\*     failAt         the pull at which the driver's stream throws; 0 if never
\*     driverAborted  driver.abort() was called while the call was pulling
\*   produced         the events given to context.producer.produce, in order
InitReactor ==
    [context |-> FALSE, subscribed |-> FALSE, abortController |-> 0, aborted |-> << >>,
     calls |-> << >>, produced |-> << >>]

\* runtimeEvents fields
\*   eventHandlers     this.eventHandlers: per event type, the handlers of
\*                     its Set in insertion order
\*   allEventHandlers  this.allEventHandlers, in insertion order
\*   registrations     one entry per events.on / events.onAll call: the
\*                     handler, the type ("*" for onAll) and whether its
\*                     unsubscribe function has not been called yet
\*   events            the types of the events given to emit, in order
\*   calls             the handler calls made: <<index of the event, handler>>
InitRuntimeEvents ==
    [eventHandlers |-> [t \in EventTypes |-> << >>], allEventHandlers |-> << >>,
     registrations |-> << >>, events |-> << >>, calls |-> << >>]

\* agentBus fields
\*   closed     this.closed
\*   events     the types of the events emit has passed on, in order
\*   buffer     the ReplaySubject's buffer: indices into events
\*   outbound   the subscriber of outbound(): subscribed, and the indices of
\*              the events it has received, in order
\*   inbound    the subscriber of inbound(), likewise
\*   at         per subscriber, Len(events) when it subscribed
InitAgentBus ==
    [closed |-> FALSE, events |-> << >>, buffer |-> << >>,
     outbound |-> [subscribed |-> FALSE, at |-> 0, received |-> << >>],
     inbound |-> [subscribed |-> FALSE, at |-> 0, received |-> << >>]]

\* reactorRegistry fields
\*   reactors     this.reactors: the ids, in insertion order
\*   initialized  this.initialized
\*   initOrder    this.initOrder
\*   pc           "idle", or the call that is suspended at an await:
\*                "initialize" (at reactor.initialize of reactors[i]) or
\*                "destroy" (at reactor.destroy of order[i])
\*   order, i     the suspended call's destroyOrder and position
\*   initializeCalled  initialize() has been called
\*   destroys     the destroy() calls completed
\*   initLog      the reactors whose initialize() was fulfilled, in order
\*   destroyCalls the reactor.destroy() calls of the last destroy(), in
\*                order: the reactor and whether it was fulfilled
InitReactorRegistry ==
    [reactors |-> << >>, initialized |-> {}, initOrder |-> << >>,
     pc |-> "idle", order |-> << >>, i |-> 0, initializeCalled |-> FALSE,
     destroys |-> 0, initLog |-> << >>, destroyCalls |-> << >>]

\* wsDriver fields
\*   ws           this.ws: "none" (null), "connecting" or "open"
\*   isDestroyed  this.isDestroyed
\*   listening    handleEvent of the stream is in this.eventListeners
\*   pc           the sendMessage generator: "idle" (none), "connecting"
\*                (at await this.connect()), "waiting" (at the await of the
\*                10 ms timer), "yielded" (suspended at yield), "done"
\*                (returned) or "thrown"
\*   events       the stream's events array
\*   isDone       the stream's isDone
\*   yielded      the event the stream yielded last ("" if none)
\*   stopped      abort() or destroy() was called since the stream was started
\*   sends        the sendMessage calls made
\*   received     the messages the socket has delivered
InitWsDriver ==
    [ws |-> "none", isDestroyed |-> FALSE, listening |-> FALSE, pc |-> "idle",
     events |-> << >>, isDone |-> FALSE, yielded |-> "", stopped |-> FALSE,
     sends |-> 0, received |-> 0]

Init ==
    /\ driver = [d \in Agents |-> InitDriver]
    /\ busLog = << >>
    /\ legacy = InitLegacy
    /\ mirror = InitMirror
    /\ lastEvent = NoEvent
    /\ mirrorAgents = InitMirrorAgents
    /\ container = InitContainer
    /\ reactor = InitReactor
    /\ runtimeEvents = InitRuntimeEvents
    /\ agentBus = InitAgentBus
    /\ reactorRegistry = InitReactorRegistry
    /\ wsDriver = InitWsDriver

\* --------------------------------------------------------------- AsyncQueue

\* AsyncQueue.push: a closed queue discards what is pushed.
QueuePush(s, event) ==
    IF s.closed THEN s ELSE [s EXCEPT !.items = Append(@, event)]

\* AsyncQueue.close: items already queued stay readable; iteration ends once
\* they are drained.
QueueClose(s) == [s EXCEPT !.closed = TRUE]

\* ---------------------------------------------------------------- SystemBus

\* A faulty variant of the subscription handler: the queue is closed before the
\* terminal event is pushed.
onAnyHandlerCloseFirst(s, event) ==
    IF ~isDriveableEvent(event) THEN s
    ELSE LET c == [s EXCEPT !.timeoutId = FALSE]
         IN  IF c.aborted THEN QueueClose(c)
             ELSE IF isTerminal(event.type) THEN QueuePush(QueueClose(c), event)
             ELSE QueuePush(c, event)

\* A faulty variant of the subscription handler: the aborted flag is not consulted.
onAnyHandlerIgnoreAborted(s, event) ==
    IF ~isDriveableEvent(event) THEN s
    ELSE LET p == QueuePush([s EXCEPT !.timeoutId = FALSE], event)
         IN  IF isTerminal(event.type) THEN QueueClose(p) ELSE p

\* A faulty variant of the subscription handler: an event is handed over only while
\* the consumer is awaiting the queue, and dropped otherwise.
onAnyHandlerDropWhenBusy(s, event) ==
    IF ~isDriveableEvent(event) THEN s
    ELSE LET c == [s EXCEPT !.timeoutId = FALSE]
         IN  IF c.aborted THEN QueueClose(c)
             ELSE LET p == IF c.pc = "waiting" THEN QueuePush(c, event) ELSE c
                  IN  IF isTerminal(event.type) THEN QueueClose(p) ELSE p

\* The handler receive() registers with consumer.onAny.
onAnyHandler(s, event) ==
    IF ~isDriveableEvent(event) THEN s
    ELSE LET c == [s EXCEPT !.timeoutId = FALSE]        \* clearTimeout(timeoutId)
         IN  IF c.aborted THEN QueueClose(c)
             ELSE LET p == QueuePush(c, event)
                  IN  IF isTerminal(event.type) THEN QueueClose(p) ELSE p

\* SystemBus.emit: every current subscriber's handler runs synchronously.
Deliver(drv, event) ==
    [d \in Agents |-> IF drv[d].subscribed THEN onAnyHandler(drv[d], event) ELSE drv[d]]

\* emit(kind) on the bus state st = [drv, log]: the event gets its emission
\* number as payload, is logged and delivered.
EmitOne(st, kind) ==
    LET event == [type |-> kind.type, source |-> kind.source,
                  agentId |-> kind.agentId, data |-> Len(st.log) + 1]
    IN  [drv |-> Deliver(st.drv, event), log |-> Append(st.log, event)]

RECURSIVE EmitAll(_, _)
EmitAll(st, kinds) ==
    IF kinds = << >> THEN st ELSE EmitAll(EmitOne(st, Head(kinds)), Tail(kinds))

\* ---------------------------------------------------------------- BusDriver

\* The event receive() emits: { type: "user_message", data: message }, an
\* object without source.
userMessage(d) == [type |-> "user_message", source |-> NoSource, agentId |-> d]

\* The event interrupt() emits: { type: "interrupt", agentId }.
interruptEvent(d) == [type |-> "interrupt", source |-> NoSource, agentId |-> d]

\* receive(), its locals as they are when the generator body starts.
freshExchange(s, log, burst) ==
    [s EXCEPT !.sync = Len(burst), !.aborted = FALSE, !.items = << >>, !.closed = FALSE,
              !.timedOut = FALSE, !.timeoutId = TRUE, !.event = "",
              !.yielded = << >>, !.start = Len(log), !.interruptAt = -1,
              !.exchanges = @ + 1, !.pc = "waiting"]

\* A faulty variant of receiveStart: the user message is emitted first and the
\* subscription registered after it.
receiveStartEmitFirst(drv, log, d, burst) ==
    LET fresh == [drv EXCEPT ![d] = freshExchange(drv[d], log, burst)]
        st == EmitAll([drv |-> fresh, log |-> log], <<userMessage(d)>> \o burst)
    IN  [st EXCEPT !.drv[d].subscribed = TRUE]

\* receive(), from the first pull up to the for-await: reset aborted, create
\* the queue, arm the timer, subscribe, then emit user_message; `burst` is
\* what the Effector emits synchronously inside that emit call.
receiveStart(drv, log, d, burst) ==
    LET fresh == [drv EXCEPT ![d] = freshExchange(drv[d], log, burst)]
        sub == [fresh EXCEPT ![d].subscribed = TRUE]
    IN  EmitAll([drv |-> sub, log |-> log], <<userMessage(d)>> \o burst)

\* A faulty variant of finally: the timer is cleared, the subscription is kept.
finallyKeepSubscription(s) == [s EXCEPT !.timeoutId = FALSE]

\* receive(): the finally block, clearTimeout(timeoutId) and unsubscribe().
finally(s) == [s EXCEPT !.timeoutId = FALSE, !.subscribed = FALSE]

\* receive(): what follows the for-await loop, `if (timedOut) throw`, then
\* the finally block.
afterLoop(s) ==
    finally([s EXCEPT !.pc = IF s.timedOut THEN "threw" ELSE "done"])

\* The caller pulls the generator for the first time: receive() runs up to
\* its for-await.
Receive(d) ==
    /\ driver[d].pc \in {"idle", "done", "threw", "returned"}
    /\ driver[d].exchanges < MaxExchanges
    /\ \E burst \in SyncBursts(d) :
         /\ Len(busLog) + 1 + Len(burst) <= MaxBus
         /\ LET st == receiveStart(driver, busLog, d, burst)
            IN  /\ driver' = st.drv
                /\ busLog' = st.log
                /\ UNCHANGED <<legacy, mirror, lastEvent, mirrorAgents, container, reactor, runtimeEvents, agentBus, reactorRegistry, wsDriver>>

\* The for-await takes the next queued event and receive() yields its
\* StreamEvent.
ConsumerNext(d) ==
    /\ driver[d].pc = "waiting"
    /\ driver[d].items # << >>
    /\ LET event == Head(driver[d].items)
       IN  driver' = [driver EXCEPT ![d].items = Tail(@),
                                    ![d].event = event.type,
                                    ![d].yielded = Append(@, toStreamEvent(event)),
                                    ![d].pc = "yielded"]
    /\ UNCHANGED <<busLog, legacy, mirror, lastEvent, mirrorAgents, container, reactor, runtimeEvents, agentBus, reactorRegistry, wsDriver>>

\* The caller pulls again: after a terminal event the loop breaks, otherwise
\* it awaits the queue again.
ConsumerResume(d) ==
    /\ driver[d].pc = "yielded"
    /\ driver' = [driver EXCEPT ![d] =
                    IF isTerminal(driver[d].event) THEN afterLoop(driver[d])
                    ELSE [driver[d] EXCEPT !.pc = "waiting"]]
    /\ UNCHANGED <<busLog, legacy, mirror, lastEvent, mirrorAgents, container, reactor, runtimeEvents, agentBus, reactorRegistry, wsDriver>>

\* The queue is closed and drained: the for-await ends.
ConsumerEnd(d) ==
    /\ driver[d].pc = "waiting"
    /\ driver[d].items = << >>
    /\ driver[d].closed
    /\ driver' = [driver EXCEPT ![d] = afterLoop(driver[d])]
    /\ UNCHANGED <<busLog, legacy, mirror, lastEvent, mirrorAgents, container, reactor, runtimeEvents, agentBus, reactorRegistry, wsDriver>>

\* The caller ends the generator while it is suspended at yield (a break in
\* the caller's own loop calls return()): only the finally block runs.
ConsumerReturn(d) ==
    /\ driver[d].pc = "yielded"
    /\ driver' = [driver EXCEPT ![d] = finally([driver[d] EXCEPT !.pc = "returned"])]
    /\ UNCHANGED <<busLog, legacy, mirror, lastEvent, mirrorAgents, container, reactor, runtimeEvents, agentBus, reactorRegistry, wsDriver>>

\* The setTimeout callback of receive().
TimeoutFire(d) ==
    /\ driver[d].timeoutId
    /\ driver' = [driver EXCEPT ![d] =
                    QueueClose([driver[d] EXCEPT !.timedOut = TRUE, !.timeoutId = FALSE])]
    /\ UNCHANGED <<busLog, legacy, mirror, lastEvent, mirrorAgents, container, reactor, runtimeEvents, agentBus, reactorRegistry, wsDriver>>

\* BusDriver.interrupt().
Interrupt(d) ==
    /\ Len(busLog) < MaxBus
    /\ LET flagged == [driver EXCEPT ![d].aborted = TRUE,
                                     ![d].interruptAt =
                                        IF driver[d].pc \in {"waiting", "yielded"} /\ @ = -1
                                        THEN Len(busLog) ELSE @]
           st == EmitOne([drv |-> flagged, log |-> busLog], interruptEvent(d))
       IN  /\ driver' = st.drv
           /\ busLog' = st.log
           /\ UNCHANGED <<legacy, mirror, lastEvent, mirrorAgents, container, reactor, runtimeEvents, agentBus, reactorRegistry, wsDriver>>

\* The Receptor, the presenter or a container emits an event on the bus.
Emit(kind) ==
    /\ Len(busLog) < MaxBus
    /\ LET st == EmitOne([drv |-> driver, log |-> busLog], kind)
       IN  /\ driver' = st.drv
           /\ busLog' = st.log
           /\ UNCHANGED <<legacy, mirror, lastEvent, mirrorAgents, container, reactor, runtimeEvents, agentBus, reactorRegistry, wsDriver>>

Next ==
    \/ \E d \in Agents : Receive(d)
    \/ \E d \in Agents : ConsumerNext(d)
    \/ \E d \in Agents : ConsumerResume(d)
    \/ \E d \in Agents : ConsumerEnd(d)
    \/ \E d \in Agents : ConsumerReturn(d)
    \/ \E d \in Agents : TimeoutFire(d)
    \/ \E d \in Agents : Interrupt(d)
    \/ \E kind \in EmitKinds : Emit(kind)

Spec == Init /\ [][Next]_vars

\* The BusDriver with a caller that keeps pulling the generator and a timer
\* that fires when it is due; nothing obliges the backend to emit.
SpecFair ==
    /\ Spec
    /\ \A d \in Agents :
          /\ WF_vars(ConsumerNext(d))
          /\ WF_vars(ConsumerResume(d))
          /\ WF_vars(ConsumerEnd(d))
          /\ WF_vars(TimeoutFire(d))

\* ------------------------------------------- BusDriver, inline-array revision

\* isDriveableEvent of the inline-array revision: the type check alone.
isDriveableEventLegacy(event) == event.type \in driveableTypes

\* resolveNext(...) called on the consumer's promise: the consumer's await
\* returns (its value is not used); a resolver called again does nothing.
wake(s) == IF s.pc = "waiting" THEN [s EXCEPT !.pc = "loop"] ELSE s

\* The handler the inline-array receive() registers with bus.onAny.
onAnyHandlerLegacy(s, event) ==
    IF ~isDriveableEventLegacy(event) THEN s
    ELSE LET c == [s EXCEPT !.timeoutId = FALSE]
         IN  IF c.aborted
             THEN LET a == [c EXCEPT !.done = TRUE]
                  IN  IF a.resolveNext THEN wake(a) ELSE a
             ELSE LET p == [c EXCEPT !.events = Append(@, event),
                                     !.done = @ \/ isTerminal(event.type)]
                  IN  IF p.resolveNext
                      \* const e = events.shift(); resolveNext({ value: e })
                      THEN wake([p EXCEPT !.events = Tail(@), !.resolveNext = FALSE])
                      ELSE p

\* bus.emit with the inline-array driver as the subscriber.
EmitLegacy(st, kind) ==
    LET event == [type |-> kind.type, source |-> kind.source,
                  agentId |-> kind.agentId, data |-> Len(st.log) + 1]
    IN  [drv |-> IF st.drv.subscribed THEN onAnyHandlerLegacy(st.drv, event) ELSE st.drv,
         log |-> Append(st.log, event)]

\* receive() of the inline-array revision, the finally block.
finallyLegacy(s) == [s EXCEPT !.timeoutId = FALSE, !.subscribed = FALSE]

\* receive() of the inline-array revision, after the while loop.
afterLoopLegacy(s) ==
    finallyLegacy([s EXCEPT !.pc = IF s.timedOut THEN "threw" ELSE "done"])

\* The first pull: reset, arm the timer, subscribe, emit user_message.
LegacyReceive ==
    /\ legacy.pc \in {"idle", "done", "threw", "returned"}
    /\ legacy.exchanges < MaxExchanges
    /\ Len(busLog) < MaxBus
    /\ LET fresh == [legacy EXCEPT !.aborted = FALSE, !.events = << >>,
                                   !.resolveNext = FALSE, !.done = FALSE,
                                   !.timedOut = FALSE, !.timeoutId = TRUE,
                                   !.subscribed = TRUE, !.event = "",
                                   !.yielded = << >>, !.start = Len(busLog),
                                   !.exchanges = @ + 1, !.pc = "loop"]
           st == EmitLegacy([drv |-> fresh, log |-> busLog], userMessage("a1"))
       IN  /\ legacy' = st.drv
           /\ busLog' = st.log
    /\ UNCHANGED <<driver, mirror, lastEvent, mirrorAgents, container, reactor, runtimeEvents, agentBus, reactorRegistry, wsDriver>>

\* One evaluation of `while (!done || events.length > 0)` and of its body up
\* to the next yield or await.
LegacyLoop ==
    /\ legacy.pc = "loop"
    /\ legacy' =
          IF legacy.done /\ legacy.events = << >> THEN afterLoopLegacy(legacy)
          ELSE IF legacy.events # << >>
               THEN [legacy EXCEPT !.events = Tail(@),
                                   !.event = Head(legacy.events).type,
                                   !.yielded = Append(@, toStreamEvent(Head(legacy.events))),
                                   !.pc = "yielded"]
               ELSE [legacy EXCEPT !.resolveNext = TRUE, !.pc = "waiting"]
    /\ UNCHANGED <<driver, busLog, mirror, lastEvent, mirrorAgents, container, reactor, runtimeEvents, agentBus, reactorRegistry, wsDriver>>

\* The caller pulls again after a yield.
LegacyResume ==
    /\ legacy.pc = "yielded"
    /\ legacy' = IF isTerminal(legacy.event) THEN afterLoopLegacy(legacy)
                 ELSE [legacy EXCEPT !.pc = "loop"]
    /\ UNCHANGED <<driver, busLog, mirror, lastEvent, mirrorAgents, container, reactor, runtimeEvents, agentBus, reactorRegistry, wsDriver>>

\* The caller ends the generator at a yield.
LegacyReturn ==
    /\ legacy.pc = "yielded"
    /\ legacy' = finallyLegacy([legacy EXCEPT !.pc = "returned"])
    /\ UNCHANGED <<driver, busLog, mirror, lastEvent, mirrorAgents, container, reactor, runtimeEvents, agentBus, reactorRegistry, wsDriver>>

\* The setTimeout callback.
LegacyTimeout ==
    /\ legacy.timeoutId
    /\ legacy' = LET t == [legacy EXCEPT !.timedOut = TRUE, !.done = TRUE,
                                         !.timeoutId = FALSE]
                 IN  IF t.resolveNext THEN wake(t) ELSE t
    /\ UNCHANGED <<driver, busLog, mirror, lastEvent, mirrorAgents, container, reactor, runtimeEvents, agentBus, reactorRegistry, wsDriver>>

\* interrupt().
LegacyInterrupt ==
    /\ Len(busLog) < MaxBus
    /\ LET st == EmitLegacy([drv |-> [legacy EXCEPT !.aborted = TRUE], log |-> busLog],
                            interruptEvent("a1"))
       IN  /\ legacy' = st.drv
           /\ busLog' = st.log
    /\ UNCHANGED <<driver, mirror, lastEvent, mirrorAgents, container, reactor, runtimeEvents, agentBus, reactorRegistry, wsDriver>>

\* The Receptor, the presenter or a container emits an event on the bus.
LegacyEmit(kind) ==
    /\ Len(busLog) < MaxBus
    /\ LET st == EmitLegacy([drv |-> legacy, log |-> busLog], kind)
       IN  /\ legacy' = st.drv
           /\ busLog' = st.log
    /\ UNCHANGED <<driver, mirror, lastEvent, mirrorAgents, container, reactor, runtimeEvents, agentBus, reactorRegistry, wsDriver>>

NextLegacy ==
    \/ LegacyReceive
    \/ LegacyLoop
    \/ LegacyResume
    \/ LegacyReturn
    \/ LegacyTimeout
    \/ LegacyInterrupt
    \/ \E kind \in EmitKinds : LegacyEmit(kind)

SpecLegacy == Init /\ [][NextLegacy]_vars

\* ------------------------------------------------------------------- mirror

\* The response events the peer may deliver from the server when n requests
\* have been sent.  The transport is asynchronous and lossy and the server is
\* not trusted to answer each request once: any response may arrive at any
\* time, with the requestId of a request sent so far or with one that no
\* request has (0).  An error response carries no ids besides its requestId
\* and scope.  A snapshot response carries one image record or none (imageId
\* NoId); a list response carries a list of one record or the empty list
\* (imageId NoId).
ServerEvents(n) ==
    [type : {"container_create_response"}, requestId : 0..n,
     containerId : ContainerIds, agentId : {NoId}, imageId : {NoId}, error : {FALSE}]
    \cup [type : {"agent_run_response"}, requestId : 0..n,
          containerId : ContainerIds, agentId : {"g1"}, imageId : {NoId},
          error : {FALSE}]
    \cup [type : {"agent_run_response"}, requestId : 0..n,
          containerId : {"c1"}, agentId : {"g2", NoId}, imageId : {NoId},
          error : {FALSE}]
    \cup [type : {"image_snapshot_response", "images_list_response"}, requestId : 0..n,
          containerId : {"c1"}, agentId : {"g1"}, imageId : ImageIds \cup {NoId},
          error : {FALSE}]
    \cup [type : {"image_resume_response"}, requestId : 0..n,
          containerId : {"c1", NoId}, agentId : {"g2"}, imageId : ImageIds,
          error : {FALSE}]
    \cup [type : {"container_create_response", "agent_run_response",
                  "image_snapshot_response", "images_list_response"},
          requestId : 0..n,
          containerId : {"c1"}, agentId : {NoId}, imageId : {NoId}, error : {TRUE}]
    \cup [type : {"image_resume_response"}, requestId : 0..n,
          containerId : {NoId}, agentId : {NoId}, imageId : ImageIds, error : {TRUE}]

\* resolve/reject of the promise of request r: a promise settles once, a
\* later resolve or reject does nothing.
settle(m, r, status, error) ==
    IF m.requests[r].status = "pending"
    THEN [m EXCEPT !.requests[r].status = status, !.requests[r].error = error]
    ELSE m

\* `new Promise(...)` of a request method: the request is registered with a
\* fresh requestId and its setTimeout is started.
newRequest(m, kind, obj) ==
    [m EXCEPT !.requests = Append(@, [kind |-> kind, status |-> "pending", error |-> "",
                                      timer |-> TRUE, obj |-> obj])]

\* MirrorContainer.addAgent on container object o.
addAgent(m, o, agentId) ==
    LET agents == m.cobjs[o].agents \cup {agentId}
    IN  [m EXCEPT !.cobjs[o].agents = agents, !.cobjs[o].agentCount = Cardinality(agents)]

\* A faulty variant of handleAgentRunResponse: the response is matched to whichever
\* run is pending, not to the one with its requestId.
handleAgentRunResponseAnyPending(m, o, event) ==
    LET co == m.cobjs[o]
    IN  IF event.containerId # co.containerId THEN m
        ELSE IF co.pendingRuns = {} THEN m
        ELSE LET r == CHOOSE x \in co.pendingRuns : \A y \in co.pendingRuns : x <= y
                 d == [m EXCEPT !.cobjs[o].pendingRuns = @ \ {r}]
             IN  IF event.error THEN settle(d, r, "rejected", "server")
                 ELSE IF event.agentId = NoId
                      THEN settle(d, r, "rejected", "No agentId in response")
                 ELSE settle(addAgent(d, o, event.agentId), r, "resolved", "")

\* MirrorContainer.handleAgentRunResponse on container object o.
handleAgentRunResponse(m, o, event) ==
    LET co == m.cobjs[o]
        r == event.requestId
    IN  IF event.containerId # co.containerId THEN m
        ELSE IF r \notin co.pendingRuns THEN m
        ELSE LET d == [m EXCEPT !.cobjs[o].pendingRuns = @ \ {r}]
             IN  IF event.error THEN settle(d, r, "rejected", "server")
                 ELSE IF event.agentId = NoId
                      THEN settle(d, r, "rejected", "No agentId in response")
                 ELSE settle(addAgent(d, o, event.agentId), r, "resolved", "")

\* MirrorContainersAPI.handleCreateResponse: a new MirrorContainer object is
\* constructed and put in the map under the response's containerId.
handleCreateResponse(m, event) ==
    LET r == event.requestId
    IN  IF r \notin m.pendingCreates THEN m
        ELSE LET d == [m EXCEPT !.pendingCreates = @ \ {r}]
             IN  IF event.error THEN settle(d, r, "rejected", "server")
                 ELSE LET co == [containerId |-> event.containerId, agents |-> {},
                                 pendingRuns |-> {}, agentCount |-> 0]
                          c == [d EXCEPT !.cobjs = Append(@, co),
                                         !.containers[event.containerId] = Len(d.cobjs) + 1]
                      IN  settle(c, r, "resolved", "")

\* MirrorImagesAPI.handleSnapshotResponse, with createMirrorImage.
handleSnapshotResponse(m, event) ==
    LET r == event.requestId
    IN  IF r \notin m.pendingSnapshots THEN m
        ELSE LET d == [m EXCEPT !.pendingSnapshots = @ \ {r}]
             IN  IF event.error THEN settle(d, r, "rejected", "server")
                 ELSE IF event.imageId = NoId
                      THEN settle(d, r, "rejected", "No image record in response")
                 ELSE LET io == [imageId |-> event.imageId,
                                 containerId |-> event.containerId, pendingResume |-> 0]
                          c == [d EXCEPT !.iobjs = Append(@, io),
                                         !.images[event.imageId] = Len(d.iobjs) + 1]
                      IN  settle(c, r, "resolved", "")

\* MirrorImagesAPI.handleListResponse: a record whose image the cache holds
\* is answered from the cache, any other gets a new MirrorImage.
handleListResponse(m, event) ==
    LET r == event.requestId
    IN  IF r \notin m.pendingLists THEN m
        ELSE LET d == [m EXCEPT !.pendingLists = @ \ {r}]
             IN  IF event.error THEN settle(d, r, "rejected", "server")
                 ELSE IF event.imageId = NoId \/ d.images[event.imageId] # 0
                      THEN settle(d, r, "resolved", "")
                 ELSE LET io == [imageId |-> event.imageId,
                                 containerId |-> event.containerId, pendingResume |-> 0]
                          c == [d EXCEPT !.iobjs = Append(@, io),
                                         !.images[event.imageId] = Len(d.iobjs) + 1]
                      IN  settle(c, r, "resolved", "")

\* The onAgentCreated callback MirrorImagesAPI.createMirrorImage passes to a
\* MirrorImage: the agent is added to the container the map holds, if any.
onAgentCreated(m, agentId, containerId) ==
    IF m.containers[containerId] # 0
    THEN addAgent(m, m.containers[containerId], agentId)
    ELSE m

\* MirrorImage.handleResumeResponse on image object io: the event's
\* requestId is not read.
handleResumeResponse(m, io, event) ==
    LET im == m.iobjs[io]
        pending == im.pendingResume
    IN  IF event.imageId # im.imageId THEN m
        ELSE IF pending = 0 THEN m
        ELSE LET d == [m EXCEPT !.iobjs[io].pendingResume = 0]
             IN  IF event.error THEN settle(d, pending, "rejected", "server")
                 ELSE IF event.agentId = NoId \/ event.containerId = NoId
                      THEN settle(d, pending, "rejected", "Invalid response")
                 ELSE settle(onAgentCreated(d, event.agentId, event.containerId),
                             pending, "resolved", "")

\* The listeners registered with peer.onUpstreamEvent, applied one object
\* after the other: objects 1..n of the MirrorContainers or MirrorImages.
RECURSIVE eachContainer(_, _, _)
eachContainer(m, n, event) ==
    IF n = 0 THEN m
    ELSE handleAgentRunResponse(eachContainer(m, n - 1, event), n, event)

RECURSIVE eachImage(_, _, _)
eachImage(m, n, event) ==
    IF n = 0 THEN m
    ELSE handleResumeResponse(eachImage(m, n - 1, event), n, event)

\* What the peer's listeners do with one server event.
handleServerEvent(m, event) ==
    CASE event.type = "container_create_response" -> handleCreateResponse(m, event)
      [] event.type = "agent_run_response" -> eachContainer(m, Len(m.cobjs), event)
      [] event.type = "image_snapshot_response" -> handleSnapshotResponse(m, event)
      [] event.type = "images_list_response" -> handleListResponse(m, event)
      [] event.type = "image_resume_response" -> eachImage(m, Len(m.iobjs), event)
      [] OTHER -> m

\* The setTimeout callback of request r.
requestTimeout(m, r) ==
    LET req == m.requests[r]
        t == [m EXCEPT !.requests[r].timer = FALSE]
    IN  CASE req.kind = "create" ->
               IF r \in t.pendingCreates
               THEN settle([t EXCEPT !.pendingCreates = @ \ {r}], r, "rejected", "timeout")
               ELSE t
          [] req.kind = "run" ->
               IF r \in t.cobjs[req.obj].pendingRuns
               THEN settle([t EXCEPT !.cobjs[req.obj].pendingRuns = @ \ {r}],
                           r, "rejected", "timeout")
               ELSE t
          [] req.kind = "snapshot" ->
               IF r \in t.pendingSnapshots
               THEN settle([t EXCEPT !.pendingSnapshots = @ \ {r}], r, "rejected", "timeout")
               ELSE t
          [] req.kind = "list" ->
               IF r \in t.pendingLists
               THEN settle([t EXCEPT !.pendingLists = @ \ {r}], r, "rejected", "timeout")
               ELSE t
          [] req.kind = "resume" ->
               \* if (this.pendingResume) { this.pendingResume = null; reject(...) }
               IF t.iobjs[req.obj].pendingResume # 0
               THEN settle([t EXCEPT !.iobjs[req.obj].pendingResume = 0],
                           r, "rejected", "timeout")
               ELSE t

\* MirrorContainersAPI.create(containerId) when the map does not hold the
\* container (when it does, the cached object is returned and nothing is
\* sent or changed).
MirrorCreate(containerId) ==
    /\ Len(mirror.requests) < MaxRequests
    /\ mirror.containers[containerId] = 0
    /\ mirror' = [newRequest(mirror, "create", 0)
                    EXCEPT !.pendingCreates = @ \cup {Len(mirror.requests) + 1}]
    /\ lastEvent' = NoEvent
    /\ UNCHANGED <<driver, busLog, legacy, mirrorAgents, container, reactor, runtimeEvents, agentBus, reactorRegistry, wsDriver>>

\* MirrorContainer.run(config) on container object o.
MirrorRun(o) ==
    /\ Len(mirror.requests) < MaxRequests
    /\ mirror' = [newRequest(mirror, "run", o)
                    EXCEPT !.cobjs[o].pendingRuns = @ \cup {Len(mirror.requests) + 1}]
    /\ lastEvent' = NoEvent
    /\ UNCHANGED <<driver, busLog, legacy, mirrorAgents, container, reactor, runtimeEvents, agentBus, reactorRegistry, wsDriver>>

\* MirrorImagesAPI.snapshot(agent), for an agent some container holds.
MirrorSnapshot ==
    /\ Len(mirror.requests) < MaxRequests
    /\ \E o \in 1..Len(mirror.cobjs) : mirror.cobjs[o].agents # {}
    /\ mirror' = [newRequest(mirror, "snapshot", 0)
                    EXCEPT !.pendingSnapshots = @ \cup {Len(mirror.requests) + 1}]
    /\ lastEvent' = NoEvent
    /\ UNCHANGED <<driver, busLog, legacy, mirrorAgents, container, reactor, runtimeEvents, agentBus, reactorRegistry, wsDriver>>

\* MirrorImagesAPI.list().
MirrorList ==
    /\ Len(mirror.requests) < MaxRequests
    /\ mirror' = [newRequest(mirror, "list", 0)
                    EXCEPT !.pendingLists = @ \cup {Len(mirror.requests) + 1}]
    /\ lastEvent' = NoEvent
    /\ UNCHANGED <<driver, busLog, legacy, mirrorAgents, container, reactor, runtimeEvents, agentBus, reactorRegistry, wsDriver>>

\* MirrorImage.resume() on image object io: the single pendingResume slot
\* takes the new promise's resolve/reject pair.
MirrorResume(io) ==
    /\ Len(mirror.requests) < MaxRequests
    /\ mirror' = [newRequest(mirror, "resume", io)
                    EXCEPT !.iobjs[io].pendingResume = Len(mirror.requests) + 1]
    /\ lastEvent' = NoEvent
    /\ UNCHANGED <<driver, busLog, legacy, mirrorAgents, container, reactor, runtimeEvents, agentBus, reactorRegistry, wsDriver>>

\* The timer of request r fires.  Every request timer runs for the same
\* 30000 ms, so the timers fire in the order the requests were made.
MirrorTimeout(r) ==
    /\ mirror.requests[r].timer
    /\ \A q \in 1..(r - 1) : ~mirror.requests[q].timer
    /\ mirror' = requestTimeout(mirror, r)
    /\ lastEvent' = NoEvent
    /\ UNCHANGED <<driver, busLog, legacy, mirrorAgents, container, reactor, runtimeEvents, agentBus, reactorRegistry, wsDriver>>

\* The peer delivers a server event to its listeners.
MirrorServerEvent(event) ==
    LET m == handleServerEvent(mirror, event)
    IN  /\ mirror' = m
        /\ lastEvent' = IF m = mirror THEN NoEvent
                        ELSE [type |-> event.type, requestId |-> event.requestId]
        /\ UNCHANGED <<driver, busLog, legacy, mirrorAgents, container, reactor, runtimeEvents, agentBus, reactorRegistry, wsDriver>>

NextMirror ==
    \/ \E c \in ContainerIds : MirrorCreate(c)
    \/ \E o \in 1..Len(mirror.cobjs) : MirrorRun(o)
    \/ MirrorSnapshot
    \/ MirrorList
    \/ \E io \in 1..Len(mirror.iobjs) : MirrorResume(io)
    \/ \E r \in 1..Len(mirror.requests) : MirrorTimeout(r)
    \/ \E event \in ServerEvents(Len(mirror.requests)) : MirrorServerEvent(event)

SpecMirror == Init /\ [][NextMirror]_vars

\* A timer that was started runs out: the setTimeout callback of the oldest
\* armed timer is eventually called.  Nothing is assumed of the server.
SpecMirrorFair ==
    SpecMirror /\ WF_vars(\E r \in 1..Len(mirror.requests) : MirrorTimeout(r))

\* -------------------------------------------- MirrorContainer / MirrorAgent

\* createMirrorRequest(type, data): type, timestamp, data, source "mirror",
\* category and intent "request".  No requestId is set on the event; it has
\* one exactly when the caller put one in data.
createMirrorRequest(type, withRequestId) == [type |-> type, requestId |-> withRequestId]

\* The events the peer may deliver to MirrorContainer "c1" when n run()
\* calls have been made: run responses, agent_destroyed notifications and the
\* events handleServerEvent forwards to an agent.
AgentServerEvents(n) ==
    [type : {"agent_run_response"}, requestId : 0..n, containerId : {"c1"},
     agentId : AgentIds \cup {NoId}, error : {FALSE}]
    \cup [type : {"agent_run_response"}, requestId : 0..n, containerId : {"c2"},
          agentId : {"g1"}, error : {FALSE}]
    \cup [type : {"agent_run_response"}, requestId : 0..n, containerId : {"c1"},
          agentId : {NoId}, error : {TRUE}]
    \cup [type : {"agent_destroyed"}, requestId : {0}, containerId : ContainerIds,
          agentId : AgentIds, error : {FALSE}]
    \cup [type : {"agent_stopped", "agent_resumed"},
          requestId : {0}, containerId : {"c1"}, agentId : AgentIds, error : {FALSE}]
    \cup [type : {"message_start", "text_delta", "message_stop"},
          requestId : {0}, containerId : {"c1"}, agentId : {"g1", NoId},
          error : {FALSE}]

\* this.agents.size
size(agents) == Cardinality({a \in AgentIds : agents[a] # 0})

\* new MirrorAgent(agentId, containerId, peer): _state "idle", _lifecycle
\* "running".
newMirrorAgent(agentId) == [agentId |-> agentId, lifecycle |-> "running", state |-> "idle"]

\* MirrorAgent.dispose on object o.
dispose(s, o) == [s EXCEPT !.objs[o].lifecycle = "destroyed"]

\* A faulty variant of addAgent: _agentCount is not updated.
addMirrorAgentStaleCount(s, agentId) ==
    [s EXCEPT !.objs = Append(@, newMirrorAgent(agentId)),
              !.agents[agentId] = Len(s.objs) + 1]

\* MirrorContainer.addAgent for a newly constructed MirrorAgent.
addMirrorAgent(s, agentId) ==
    LET o == Len(s.objs) + 1
        agents == [s.agents EXCEPT ![agentId] = o]
    IN  [s EXCEPT !.objs = Append(@, newMirrorAgent(agentId)),
                  !.agents = agents, !.agentCount = size(agents)]

\* A faulty variant of removeAgent: the agent is disposed and stays in the
\* map.
removeAgentKeepEntry(s, agentId) ==
    IF s.agents[agentId] # 0 THEN dispose(s, s.agents[agentId]) ELSE s

\* MirrorContainer.removeAgent.
removeAgent(s, agentId) ==
    IF s.agents[agentId] # 0
    THEN LET agents == [s.agents EXCEPT ![agentId] = 0]
         IN  [dispose(s, s.agents[agentId]) EXCEPT !.agents = agents,
                                                   !.agentCount = size(agents)]
    ELSE s

\* A faulty variant of updateState: tool_call is not a case of the switch.
updateStateNoToolCall(s, o, eventType) ==
    CASE eventType = "message_start" -> [s EXCEPT !.objs[o].state = "thinking"]
      [] eventType = "text_delta" -> [s EXCEPT !.objs[o].state = "responding"]
      [] eventType = "message_stop" -> [s EXCEPT !.objs[o].state = "idle"]
      [] eventType = "agent_stopped" -> [s EXCEPT !.objs[o].lifecycle = "stopped"]
      [] eventType = "agent_resumed" -> [s EXCEPT !.objs[o].lifecycle = "running"]
      [] eventType = "agent_destroyed" -> [s EXCEPT !.objs[o].lifecycle = "destroyed"]
      [] OTHER -> s

\* MirrorAgent.updateState on object o.
updateState(s, o, eventType) ==
    CASE eventType = "message_start" -> [s EXCEPT !.objs[o].state = "thinking"]
      [] eventType = "text_delta" -> [s EXCEPT !.objs[o].state = "responding"]
      [] eventType = "tool_call" -> [s EXCEPT !.objs[o].state = "awaiting_tool_result"]
      [] eventType = "message_stop" -> [s EXCEPT !.objs[o].state = "idle"]
      [] eventType = "agent_stopped" -> [s EXCEPT !.objs[o].lifecycle = "stopped"]
      [] eventType = "agent_resumed" -> [s EXCEPT !.objs[o].lifecycle = "running"]
      [] eventType = "agent_destroyed" -> [s EXCEPT !.objs[o].lifecycle = "destroyed"]
      [] OTHER -> s

\* MirrorAgent.handleEvent on object o: the state update; the subscribed
\* handlers change nothing of the mirror.
handleEvent(s, o, event) == updateState(s, o, event.type)

\* The MirrorAgent object forwardToAgent hands the event to, 0 if none.
forwardTarget(s, event) ==
    IF event.agentId = NoId THEN 0 ELSE s.agents[event.agentId]

\* A faulty variant of forwardToAgent: an event that names no agent of the
\* map is handed to the first agent constructed.
forwardToAgentFallback(s, event) ==
    IF forwardTarget(s, event) = 0
    THEN IF s.objs = << >> THEN s ELSE handleEvent(s, 1, event)
    ELSE handleEvent(s, forwardTarget(s, event), event)

\* MirrorContainer.forwardToAgent.
forwardToAgent(s, event) ==
    IF forwardTarget(s, event) = 0 THEN s
    ELSE handleEvent(s, forwardTarget(s, event), event)

\* MirrorContainer.handleAgentRunResponse, with the MirrorAgent it
\* constructs.
runResponse(s, event) ==
    IF event.containerId # "c1" THEN s
    ELSE IF event.requestId \notin s.pendingRuns THEN s
    ELSE LET d == [s EXCEPT !.pendingRuns = @ \ {event.requestId}]
         IN  IF event.error \/ event.agentId = NoId THEN d
             ELSE addMirrorAgent(d, event.agentId)

\* MirrorContainer.handleAgentDestroyed.
handleAgentDestroyed(s, event) ==
    IF event.containerId # "c1" THEN s ELSE removeAgent(s, event.agentId)

\* MirrorContainer.handleServerEvent.
containerHandleServerEvent(s, event) ==
    CASE event.type = "agent_run_response" -> runResponse(s, event)
      [] event.type = "agent_destroyed" -> handleAgentDestroyed(s, event)
      [] OTHER -> forwardToAgent(s, event)

\* The MirrorAgent object a server event is handled on, 0 if none.
eventTarget(s, event) ==
    CASE event.type = "agent_run_response" -> 0
      [] event.type = "agent_destroyed" ->
            IF event.containerId # "c1" THEN 0 ELSE s.agents[event.agentId]
      [] OTHER -> forwardTarget(s, event)

\* What a step records: the request sent and the operation.
record(s, sent, op, agentId, containerId, obj, result) ==
    [s EXCEPT !.sent = sent,
              !.lastOp = [op |-> op, agentId |-> agentId, containerId |-> containerId,
                          obj |-> obj, result |-> result]]

\* MirrorContainer.run(config): the pending entry, the timer, the request.
ContainerRun ==
    /\ Len(mirrorAgents.timers) < MaxRuns
    /\ LET r == Len(mirrorAgents.timers) + 1
           s == [mirrorAgents EXCEPT !.pendingRuns = @ \cup {r}, !.timers = Append(@, TRUE)]
       IN  mirrorAgents' = record(s, createMirrorRequest("agent_run_request", TRUE),
                                  "run", NoId, "c1", 0, "")
    /\ UNCHANGED <<driver, busLog, legacy, mirror, lastEvent, container, reactor, runtimeEvents, agentBus, reactorRegistry, wsDriver>>

\* The setTimeout callback of run() call r; the timers all run for 30000 ms
\* and fire in the order of the calls.
ContainerRunTimeout(r) ==
    /\ mirrorAgents.timers[r]
    /\ \A q \in 1..(r - 1) : ~mirrorAgents.timers[q]
    /\ LET s == [mirrorAgents EXCEPT !.timers[r] = FALSE, !.pendingRuns = @ \ {r}]
       IN  mirrorAgents' = record(s, NoRequest, "timeout", NoId, "c1", 0, "")
    /\ UNCHANGED <<driver, busLog, legacy, mirror, lastEvent, container, reactor, runtimeEvents, agentBus, reactorRegistry, wsDriver>>

\* MirrorContainer.destroy(agentId).
ContainerDestroy(agentId) ==
    /\ LET o == mirrorAgents.agents[agentId]
           agents == [mirrorAgents.agents EXCEPT ![agentId] = 0]
       IN  mirrorAgents' =
             IF o = 0
             THEN record(mirrorAgents, NoRequest, "destroy", agentId, "c1", 0, "false")
             ELSE record([dispose(mirrorAgents, o) EXCEPT !.agents = agents,
                                                          !.agentCount = size(agents)],
                         createMirrorRequest("agent_destroy_request", FALSE),
                         "destroy", agentId, "c1", o, "true")
    /\ UNCHANGED <<driver, busLog, legacy, mirror, lastEvent, container, reactor, runtimeEvents, agentBus, reactorRegistry, wsDriver>>

\* A faulty variant of MirrorAgent.receive: no check of a stopped agent.
agentReceiveNoStoppedCheck(s, o) ==
    IF s.objs[o].lifecycle = "destroyed"
    THEN record(s, NoRequest, "receive", s.objs[o].agentId, "c1", o, "Agent is destroyed")
    ELSE record(s, createMirrorRequest("user_message", FALSE),
                "receive", s.objs[o].agentId, "c1", o, "")

\* MirrorAgent.receive(message) on object o.
agentReceive(s, o) ==
    IF s.objs[o].lifecycle = "destroyed"
    THEN record(s, NoRequest, "receive", s.objs[o].agentId, "c1", o, "Agent is destroyed")
    ELSE IF s.objs[o].lifecycle = "stopped"
    THEN record(s, NoRequest, "receive", s.objs[o].agentId, "c1", o,
                "Cannot send message to stopped agent")
    ELSE record(s, createMirrorRequest("user_message", FALSE),
                "receive", s.objs[o].agentId, "c1", o, "")

AgentReceive(o) ==
    /\ mirrorAgents' = agentReceive(mirrorAgents, o)
    /\ UNCHANGED <<driver, busLog, legacy, mirror, lastEvent, container, reactor, runtimeEvents, agentBus, reactorRegistry, wsDriver>>

\* MirrorAgent.interrupt() on object o.
AgentInterrupt(o) ==
    /\ mirrorAgents' = record(mirrorAgents, createMirrorRequest("interrupt_request", FALSE),
                              "interrupt", mirrorAgents.objs[o].agentId, "c1", o, "")
    /\ UNCHANGED <<driver, busLog, legacy, mirror, lastEvent, container, reactor, runtimeEvents, agentBus, reactorRegistry, wsDriver>>

\* MirrorAgent.stop() on object o.
AgentStop(o) ==
    /\ mirrorAgents' = record([mirrorAgents EXCEPT !.objs[o].lifecycle = "stopped"],
                              createMirrorRequest("agent_stop_request", FALSE),
                              "stop", mirrorAgents.objs[o].agentId, "c1", o, "")
    /\ UNCHANGED <<driver, busLog, legacy, mirror, lastEvent, container, reactor, runtimeEvents, agentBus, reactorRegistry, wsDriver>>

\* A faulty variant of MirrorAgent.resume: no check of a destroyed agent.
agentResumeNoDestroyedCheck(s, o) ==
    record([s EXCEPT !.objs[o].lifecycle = "running"],
           createMirrorRequest("agent_resume_request", FALSE),
           "resume", s.objs[o].agentId, "c1", o, "")

\* MirrorAgent.resume() on object o.
agentResume(s, o) ==
    IF s.objs[o].lifecycle = "destroyed"
    THEN record(s, NoRequest, "resume", s.objs[o].agentId, "c1", o,
                "Cannot resume destroyed agent")
    ELSE record([s EXCEPT !.objs[o].lifecycle = "running"],
                createMirrorRequest("agent_resume_request", FALSE),
                "resume", s.objs[o].agentId, "c1", o, "")

AgentResume(o) ==
    /\ mirrorAgents' = agentResume(mirrorAgents, o)
    /\ UNCHANGED <<driver, busLog, legacy, mirror, lastEvent, container, reactor, runtimeEvents, agentBus, reactorRegistry, wsDriver>>

\* The peer delivers a server event to the MirrorContainer's listener.
ContainerServerEvent(event) ==
    /\ LET s == containerHandleServerEvent(mirrorAgents, event)
       IN  mirrorAgents' =
             IF s = mirrorAgents /\ event.type # "agent_destroyed"
             THEN [s EXCEPT !.sent = NoRequest, !.lastOp = NoOp]
             ELSE record(s, NoRequest, event.type, event.agentId, event.containerId,
                         eventTarget(mirrorAgents, event), "")
    /\ UNCHANGED <<driver, busLog, legacy, mirror, lastEvent, container, reactor, runtimeEvents, agentBus, reactorRegistry, wsDriver>>

NextAgents ==
    \/ ContainerRun
    \/ \E r \in 1..Len(mirrorAgents.timers) : ContainerRunTimeout(r)
    \/ \E agentId \in AgentIds : ContainerDestroy(agentId)
    \/ \E o \in 1..Len(mirrorAgents.objs) :
          AgentReceive(o) \/ AgentInterrupt(o) \/ AgentStop(o) \/ AgentResume(o)
    \/ \E event \in AgentServerEvents(Len(mirrorAgents.timers)) : ContainerServerEvent(event)

SpecAgents == Init /\ [][NextAgents]_vars

\* The stream events of an exchange the peer may deliver for an agent of
\* MirrorContainer "c1".
StreamEvents ==
    [type : {"message_start", "text_delta", "tool_call", "tool_result",
             "message_stop", "interrupted"},
     requestId : {0}, containerId : {"c1"}, agentId : AgentIds, error : {FALSE}]

\* The peer delivers a stream event to the MirrorContainer's listener; the
\* delivery is recorded whether or not it changed anything.
ContainerStreamEvent(event) ==
    /\ mirrorAgents' = record(containerHandleServerEvent(mirrorAgents, event), NoRequest,
                              event.type, event.agentId, event.containerId,
                              eventTarget(mirrorAgents, event), "")
    /\ UNCHANGED <<driver, busLog, legacy, mirror, lastEvent, container, reactor, runtimeEvents, agentBus, reactorRegistry, wsDriver>>

\* The agents' state and lifecycle: agents are run, and the server's
\* responses, notifications and stream events are delivered.
NextAgentState ==
    \/ ContainerRun
    \/ \E event \in AgentServerEvents(Len(mirrorAgents.timers)) : ContainerServerEvent(event)
    \/ \E event \in StreamEvents : ContainerStreamEvent(event)

SpecAgentState == Init /\ [][NextAgentState]_vars

\* The run responses and agent_destroyed notifications among the events the
\* peer may deliver when n run() calls have been made.
RegistryServerEvents(n) ==
    {event \in AgentServerEvents(n) :
        event.type \in {"agent_run_response", "agent_destroyed"}}

\* MirrorContainer.destroyAll(): destroy(agentId) for every key of the map.
\* Each destroy completes without suspending, so the awaits of the loop
\* resume in consecutive microtasks and no event of the peer is handled in
\* between.
RECURSIVE destroyAll(_, _)
destroyAll(s, keys) ==
    IF keys = {} THEN s
    ELSE LET agentId == CHOOSE a \in keys : TRUE
             agents == [s.agents EXCEPT ![agentId] = 0]
         IN  destroyAll([dispose(s, s.agents[agentId]) EXCEPT !.agents = agents,
                                                              !.agentCount = size(agents)],
                        keys \ {agentId})

\* MirrorContainer.destroyAll() is called.
ContainerDestroyAll ==
    /\ LET keys == {a \in AgentIds : mirrorAgents.agents[a] # 0}
       IN  mirrorAgents' =
             record(destroyAll(mirrorAgents, keys),
                    IF keys = {} THEN NoRequest
                    ELSE createMirrorRequest("agent_destroy_request", FALSE),
                    "destroyAll", NoId, "c1", 0, "")
    /\ UNCHANGED <<driver, busLog, legacy, mirror, lastEvent, container, reactor, runtimeEvents, agentBus, reactorRegistry, wsDriver>>

\* The MirrorAgent objects constructed so far and those the pending run()
\* calls may still construct.
constructible(s) == Len(s.objs) + Cardinality(s.pendingRuns)

\* MirrorContainer.addAgent(agent) with the MirrorAgent a resumed image has
\* constructed (MirrorImagesAPI.createMirrorImage's onResume callback).
ContainerAddAgent(agentId) ==
    /\ constructible(mirrorAgents) < MaxRuns
    /\ mirrorAgents' = record(addMirrorAgent(mirrorAgents, agentId), NoRequest,
                              "addAgent", agentId, "c1", Len(mirrorAgents.objs) + 1, "")
    /\ UNCHANGED <<driver, busLog, legacy, mirror, lastEvent, container, reactor, runtimeEvents, agentBus, reactorRegistry, wsDriver>>

\* MirrorContainer.removeAgent(agentId) is called.
ContainerRemoveAgent(agentId) ==
    /\ mirrorAgents' = record(removeAgent(mirrorAgents, agentId), NoRequest,
                              "removeAgent", agentId, "c1",
                              mirrorAgents.agents[agentId], "")
    /\ UNCHANGED <<driver, busLog, legacy, mirror, lastEvent, container, reactor, runtimeEvents, agentBus, reactorRegistry, wsDriver>>

\* The registry of a MirrorContainer: agents are run, added, removed and
\* destroyed, locally and by the server's notifications, and are stopped and
\* resumed.
NextAgentRegistry ==
    \/ constructible(mirrorAgents) < MaxRuns /\ ContainerRun
    \/ \E event \in RegistryServerEvents(Len(mirrorAgents.timers)) : ContainerServerEvent(event)
    \/ \E agentId \in AgentIds : ContainerDestroy(agentId)
    \/ ContainerDestroyAll
    \/ \E agentId \in AgentIds : ContainerAddAgent(agentId)
    \/ \E agentId \in AgentIds : ContainerRemoveAgent(agentId)
    \/ \E o \in 1..Len(mirrorAgents.objs) : AgentStop(o) \/ AgentResume(o)

SpecAgentRegistry == Init /\ [][NextAgentRegistry]_vars

\* ----------------------------------------------- RuntimeContainer / RuntimeImpl

\* The ids a caller may name: the ids of the agents run so far and ids no
\* agent has yet.
AgentNums == 1..MaxAgents

\* Map.has(key) on the keys of a Map.
has(keys, key) == \E k \in 1..Len(keys) : keys[k] = key

\* Map.delete(key): the key is removed, the order of the others is kept.
delete(keys, key) == SelectSeq(keys, LAMBDA k : k # key)

\* container.getAgent(agentId) finds the agent in a live container.
holds(s, containerId, agentId) ==
    has(s.registry, containerId) /\ has(s.agents[containerId], agentId)

\* context.bus.emit of a container lifecycle notification.
emit(s, type, containerId, agentId) ==
    [s EXCEPT !.emitted = @ (+) SetToBag({[type |-> type, containerId |-> containerId,
                                           agentId |-> agentId]})]

\* A call completes with a result.
return(s, op, containerId, ids, agentId, result) ==
    [s EXCEPT !.returned = [op |-> op, containerId |-> containerId, ids |-> ids,
                            agentId |-> agentId, result |-> result]]

\* A call is suspended at "await agent.destroy()" for ids[i]; nothing has
\* returned in this step.
suspend(s, op, containerId, ids, i) ==
    [s EXCEPT !.calls = @ (+) SetToBag({[op |-> op, containerId |-> containerId,
                                         ids |-> ids, i |-> i]}),
              !.returned = NoReturn]

\* RuntimeAgent.destroy() settles: fulfilled, the agent's lifecycle is
\* destroyed; rejected, the agent is as it was.
agentDestroy(s, agentId, ok) ==
    IF ok THEN [s EXCEPT !.lifecycle[agentId] = "destroyed"] ELSE s

\* A faulty variant of destroyAgent: the notification is emitted before the
\* lookup of the agent.
destroyAgentEmitFirst(s, containerId, agentId) ==
    IF ~has(s.agents[containerId], agentId)
    THEN return(emit(s, "agent_unregistered", containerId, agentId),
                "destroyAgent", containerId, <<agentId>>, agentId, "false")
    ELSE suspend(s, "destroyAgent", containerId, <<agentId>>, 1)

\* RuntimeContainer.destroyAgent(agentId) up to its await: false for an id
\* the container does not hold, else agent.destroy() is called and the call
\* is suspended.
destroyAgent(s, containerId, agentId) ==
    IF ~has(s.agents[containerId], agentId)
    THEN return(s, "destroyAgent", containerId, <<agentId>>, agentId, "false")
    ELSE suspend(s, "destroyAgent", containerId, <<agentId>>, 1)

\* RuntimeContainer.destroyAgent after its await: the agent is deleted from
\* the registry and agent_unregistered is emitted.
destroyAgentResume(s, containerId, agentId) ==
    emit([s EXCEPT !.agents[containerId] = delete(@, agentId)],
         "agent_unregistered", containerId, agentId)

\* The end of RuntimeContainer.dispose after its destroyAllAgents:
\* container_destroyed is emitted and onDisposed deletes the container from
\* the runtime's registry; the container record stays.
disposeFinish(s, containerId) ==
    emit([s EXCEPT !.registry = delete(@, containerId)],
         "container_destroyed", containerId, 0)

\* The end of RuntimeImpl.dispose after its loop: the registry is cleared.
runtimeDisposeFinish(s) ==
    return([s EXCEPT !.registry = << >>], "runtime.dispose", NoId, << >>, 0, "done")

\* The loop of RuntimeContainer.destroyAllAgents from position i of its
\* snapshot ids, run by op (destroyAllAgents itself, a container's dispose,
\* or the dispose of a container inside RuntimeImpl.dispose): destroyAgent
\* of an id the container no longer holds returns false and the loop goes
\* on; the loop is suspended at the first id whose agent.destroy() it
\* awaits.  After the last id destroyAllAgents is done; dispose finishes;
\* RuntimeImpl.dispose finishes the container's dispose and goes on with
\* the next container of the registry (a Map's iterator goes on with the
\* entries after a deleted one, and every container it has visited has been
\* deleted), until the registry is empty.
RECURSIVE destroyAllAgentsFrom(_, _, _, _, _)
destroyAllAgentsFrom(s, op, containerId, ids, i) ==
    IF i > Len(ids)
    THEN CASE op = "destroyAllAgents" ->
                return(s, "destroyAllAgents", containerId, ids, 0, "done")
           [] op = "dispose" ->
                return(disposeFinish(s, containerId), "dispose", containerId, ids, 0, "done")
           [] op = "runtime.dispose" ->
                LET next == disposeFinish(s, containerId)
                IN  IF next.registry = << >>
                    THEN runtimeDisposeFinish(next)
                    ELSE destroyAllAgentsFrom(next, op, Head(next.registry),
                                              next.agents[Head(next.registry)], 1)
    ELSE IF has(s.agents[containerId], ids[i])
         THEN suspend(s, op, containerId, ids, i)
         ELSE destroyAllAgentsFrom(s, op, containerId, ids, i + 1)

\* A faulty variant of containers.create: the registry is not consulted.
containersCreateNoLookup(s, containerId) ==
    IF containerId \in s.records
    THEN return([s EXCEPT !.registry = Append(delete(@, containerId), containerId),
                          !.agents[containerId] = << >>],
                "create", containerId, << >>, 0, "loaded")
    ELSE return(emit([s EXCEPT !.registry = Append(@, containerId),
                               !.records = @ \cup {containerId}],
                     "container_created", containerId, 0),
                "create", containerId, << >>, 0, "created")

\* RuntimeImpl containers.create(containerId): the live container is
\* returned if there is one; else a container whose record the persistence
\* holds is loaded (a new RuntimeContainer with no agents, nothing emitted);
\* else RuntimeContainer.create saves the record and emits
\* container_created.  The loaded or created container is put in the
\* registry.
containersCreate(s, containerId) ==
    IF has(s.registry, containerId)
    THEN return(s, "create", containerId, << >>, 0, "existing")
    ELSE IF containerId \in s.records
    THEN return([s EXCEPT !.registry = Append(@, containerId),
                          !.agents[containerId] = << >>],
                "create", containerId, << >>, 0, "loaded")
    ELSE return(emit([s EXCEPT !.registry = Append(@, containerId),
                               !.records = @ \cup {containerId}],
                     "container_created", containerId, 0),
                "create", containerId, << >>, 0, "created")

\* containers.create(containerId) is called.
ContainersCreate(containerId) ==
    /\ container' = containersCreate(container, containerId)
    /\ UNCHANGED <<driver, busLog, legacy, mirror, lastEvent, mirrorAgents, reactor, runtimeEvents, agentBus, reactorRegistry, wsDriver>>

\* The common end of runAgent and runAgentWithMessages: a RuntimeAgent with
\* a fresh id and a session holding messages is constructed, put in
\* this.agents, and agent_registered is emitted.
registerAgent(s, containerId, messages) ==
    LET agentId == Len(s.lifecycle) + 1
    IN  emit([s EXCEPT !.lifecycle = Append(@, "running"),
                       !.owner = Append(@, containerId),
                       !.sessions = Append(@, messages),
                       !.agents[containerId] = Append(@, agentId)],
             "agent_registered", containerId, agentId)

\* RuntimeContainer.runAgent(config) on a live container: a fresh id, an
\* empty session, the agent is registered and agent_registered is emitted.
RunAgent(containerId) ==
    /\ has(container.registry, containerId)
    /\ Len(container.lifecycle) < MaxAgents
    /\ container' = return(registerAgent(container, containerId, << >>),
                           "runAgent", containerId, << >>,
                           Len(container.lifecycle) + 1, "agent")
    /\ UNCHANGED <<driver, busLog, legacy, mirror, lastEvent, mirrorAgents, reactor, runtimeEvents, agentBus, reactorRegistry, wsDriver>>

\* container.destroyAgent(agentId) called on a live container.
DestroyAgent(containerId, agentId) ==
    /\ has(container.registry, containerId)
    /\ BagCardinality(container.calls) < MaxCalls
    /\ container' = destroyAgent(container, containerId, agentId)
    /\ UNCHANGED <<driver, busLog, legacy, mirror, lastEvent, mirrorAgents, reactor, runtimeEvents, agentBus, reactorRegistry, wsDriver>>

\* RuntimeImpl agents.destroy(agentId): the container that holds the agent
\* destroys it; false when no live container holds it.
AgentsDestroy(agentId) ==
    /\ BagCardinality(container.calls) < MaxCalls
    /\ container' =
         IF \E c \in ContainerIds : holds(container, c, agentId)
         THEN destroyAgent(container,
                           CHOOSE c \in ContainerIds : holds(container, c, agentId),
                           agentId)
         ELSE return(container, "agents.destroy", NoId, <<agentId>>, agentId, "false")
    /\ UNCHANGED <<driver, busLog, legacy, mirror, lastEvent, mirrorAgents, reactor, runtimeEvents, agentBus, reactorRegistry, wsDriver>>

\* container.destroyAllAgents() called on a live container: the keys are
\* copied and the loop starts.
DestroyAllAgents(containerId) ==
    /\ has(container.registry, containerId)
    /\ BagCardinality(container.calls) < MaxCalls
    /\ container' = destroyAllAgentsFrom(container, "destroyAllAgents", containerId,
                                         container.agents[containerId], 1)
    /\ UNCHANGED <<driver, busLog, legacy, mirror, lastEvent, mirrorAgents, reactor, runtimeEvents, agentBus, reactorRegistry, wsDriver>>

\* The agent.destroy() that a suspended call awaits settles, fulfilled (ok)
\* or rejected, and the call runs on: to its return for destroyAgent, to
\* the next await or the end of the loop for destroyAllAgents and the
\* disposes.  A rejection is thrown out of destroyAgent, out of the loop of
\* destroyAllAgents, and out of the dispose that awaits it.
AwaitDestroy(call, ok) ==
    /\ call \in BagToSet(container.calls)
    /\ LET agentId == call.ids[call.i]
           rest == [container EXCEPT !.calls = @ (-) SetToBag({call})]
           settled == agentDestroy(rest, agentId, ok)
       IN  container' =
             IF ~ok
             THEN return(settled, call.op, call.containerId, call.ids, agentId, "error")
             ELSE IF call.op = "destroyAgent"
                  THEN return(destroyAgentResume(settled, call.containerId, agentId),
                              "destroyAgent", call.containerId, call.ids, agentId, "true")
                  ELSE destroyAllAgentsFrom(destroyAgentResume(settled, call.containerId, agentId),
                                            call.op, call.containerId, call.ids, call.i + 1)
    /\ UNCHANGED <<driver, busLog, legacy, mirror, lastEvent, mirrorAgents, reactor, runtimeEvents, agentBus, reactorRegistry, wsDriver>>

NextContainer ==
    \/ \E c \in ContainerIds : ContainersCreate(c)
    \/ \E c \in ContainerIds : RunAgent(c)
    \/ \E c \in ContainerIds, a \in AgentNums : DestroyAgent(c, a)
    \/ \E a \in AgentNums : AgentsDestroy(a)
    \/ \E c \in ContainerIds : DestroyAllAgents(c)
    \/ \E call \in BagToSet(container.calls), ok \in BOOLEAN : AwaitDestroy(call, ok)

SpecContainer == Init /\ [][NextContainer]_vars

\* The number of container_destroyed notifications emitted so far.
disposed(s) ==
    BagCardinality([e \in {d \in BagToSet(s.emitted) : d.type = "container_destroyed"}
                      |-> s.emitted[e]])

\* container.dispose() called on a live container: destroyAllAgents, then
\* the end of dispose.
Dispose(containerId) ==
    /\ has(container.registry, containerId)
    /\ disposed(container) < MaxDisposes
    /\ BagCardinality(container.calls) < MaxCalls
    /\ container' = destroyAllAgentsFrom(container, "dispose", containerId,
                                         container.agents[containerId], 1)
    /\ UNCHANGED <<driver, busLog, legacy, mirror, lastEvent, mirrorAgents, reactor, runtimeEvents, agentBus, reactorRegistry, wsDriver>>

\* RuntimeImpl.dispose(): every container of the registry is disposed in
\* turn, then the registry is cleared.
RuntimeDispose ==
    /\ disposed(container) < MaxDisposes
    /\ BagCardinality(container.calls) < MaxCalls
    /\ container' =
         IF container.registry = << >>
         THEN runtimeDisposeFinish(container)
         ELSE destroyAllAgentsFrom(container, "runtime.dispose", Head(container.registry),
                                   container.agents[Head(container.registry)], 1)
    /\ UNCHANGED <<driver, busLog, legacy, mirror, lastEvent, mirrorAgents, reactor, runtimeEvents, agentBus, reactorRegistry, wsDriver>>

\* The runtime with the disposal of containers and of the runtime itself.
NextRuntime ==
    \/ \E c \in ContainerIds : ContainersCreate(c)
    \/ \E c \in ContainerIds : RunAgent(c)
    \/ \E c \in ContainerIds, a \in AgentNums : DestroyAgent(c, a)
    \/ \E a \in AgentNums : AgentsDestroy(a)
    \/ \E c \in ContainerIds : DestroyAllAgents(c)
    \/ \E call \in BagToSet(container.calls), ok \in BOOLEAN : AwaitDestroy(call, ok)
    \/ \E c \in ContainerIds : Dispose(c)
    \/ RuntimeDispose

SpecRuntime == Init /\ [][NextRuntime]_vars

\* The containers of a runtime: they are created (or loaded again), run
\* agents, and are disposed, one dispose at a time.
NextContainers ==
    \/ \E c \in ContainerIds : ContainersCreate(c)
    \/ \E c \in ContainerIds : RunAgent(c)
    \/ \E c \in ContainerIds : container.calls = EmptyBag /\ Dispose(c)
    \/ \E call \in BagToSet(container.calls), ok \in BOOLEAN : AwaitDestroy(call, ok)

SpecContainers == Init /\ [][NextContainers]_vars

\* ------------------------------------------------ RuntimeImpl images API

\* RuntimeAgent.receive(message) on a running agent: the message is appended
\* to the agent's session.
RuntimeAgentReceive(agentId) ==
    /\ agentId \in 1..Len(container.lifecycle)
    /\ container.lifecycle[agentId] = "running"
    /\ Len(container.sessions[agentId]) < MaxMessages
    /\ container' =
         return([container EXCEPT !.sessions[agentId] = Append(@, <<agentId, Len(@) + 1>>)],
                "receive", container.owner[agentId], << >>, agentId, "")
    /\ UNCHANGED <<driver, busLog, legacy, mirror, lastEvent, mirrorAgents, reactor, runtimeEvents, agentBus, reactorRegistry, wsDriver>>

\* RuntimeAgentImage.snapshot(agent, context): an image record with a fresh
\* imageId, the agent's containerId and a copy of its session's messages is
\* saved.
imageSnapshot(s, agentId) ==
    [s EXCEPT !.images = Append(@, [imageId |-> Len(@) + 1,
                                    containerId |-> s.owner[agentId],
                                    agentId |-> agentId,
                                    messages |-> s.sessions[agentId],
                                    stored |-> TRUE])]

\* A faulty variant of runAgentWithMessages: the messages are not loaded
\* into the session.
runAgentWithMessagesNotLoaded(s, containerId, messages) ==
    registerAgent(s, containerId, << >>)

\* session.addMessage for each of messages in turn, from position k.
RECURSIVE addMessages(_, _, _)
addMessages(session, messages, k) ==
    IF k > Len(messages) THEN session
    ELSE addMessages(Append(session, messages[k]), messages, k + 1)

\* RuntimeContainer.runAgentWithMessages(config, messages): as runAgent,
\* with the messages loaded into the new session one by one.
runAgentWithMessages(s, containerId, messages) ==
    registerAgent(s, containerId, addMessages(<< >>, messages, 1))

\* A faulty variant of createAgentWithMessages: a container missing in the
\* registry is loaded from its record.
createAgentWithMessagesFromRecord(s, containerId, imageId, messages) ==
    IF ~has(s.registry, containerId) /\ containerId \notin s.records
    THEN return(s, "resume", containerId, <<imageId>>, 0, "Container not found")
    ELSE return(runAgentWithMessages([s EXCEPT !.registry =
                                          IF has(@, containerId) THEN @
                                          ELSE Append(@, containerId)],
                                     containerId, messages),
                "resume", containerId, <<imageId>>, Len(s.lifecycle) + 1, "agent")

\* createAgentWithMessages of RuntimeImpl.createImageContext: the container
\* is taken from the registry only; "Container not found" is thrown when it
\* is not there.
createAgentWithMessages(s, containerId, imageId, messages) ==
    IF ~has(s.registry, containerId)
    THEN return(s, "resume", containerId, <<imageId>>, 0, "Container not found")
    ELSE return(runAgentWithMessages(s, containerId, messages),
                "resume", containerId, <<imageId>>, Len(s.lifecycle) + 1, "agent")

\* images.snapshot(agent) of a running agent.
ImagesSnapshot(agentId) ==
    /\ agentId \in 1..Len(container.lifecycle)
    /\ container.lifecycle[agentId] = "running"
    /\ Len(container.images) < MaxImages
    /\ container' = return(imageSnapshot(container, agentId), "snapshot",
                           container.owner[agentId], <<Len(container.images) + 1>>,
                           agentId, "image")
    /\ UNCHANGED <<driver, busLog, legacy, mirror, lastEvent, mirrorAgents, reactor, runtimeEvents, agentBus, reactorRegistry, wsDriver>>

\* RuntimeAgentImage.resume() on an image object the caller holds: the
\* context's createAgentWithMessages with the image's containerId and
\* messages.
ImageResume(imageId) ==
    /\ imageId \in 1..Len(container.images)
    /\ has(container.registry, container.images[imageId].containerId)
          => Len(container.lifecycle) < MaxAgents
    /\ container' = createAgentWithMessages(container, container.images[imageId].containerId,
                                            imageId, container.images[imageId].messages)
    /\ UNCHANGED <<driver, busLog, legacy, mirror, lastEvent, mirrorAgents, reactor, runtimeEvents, agentBus, reactorRegistry, wsDriver>>

\* persistence.images.findAllImages(): the records saved and not deleted.
findAllImages(s) == SelectSeq(s.images, LAMBDA image : image.stored)

\* A faulty variant of images.delete: nothing is deleted.
imagesDeleteNothing(s, imageId) == s

\* images.delete(imageId): persistence.images.deleteImage.
imagesDelete(s, imageId) ==
    IF imageId \in 1..Len(s.images)
    THEN [s EXCEPT !.images[imageId].stored = FALSE]
    ELSE s

\* images.list(): one RuntimeAgentImage per record found.
ImagesList ==
    /\ container' =
         LET records == findAllImages(container)
         IN  return(container, "list", NoId,
                    [k \in 1..Len(records) |-> records[k].imageId], 0, "images")
    /\ UNCHANGED <<driver, busLog, legacy, mirror, lastEvent, mirrorAgents, reactor, runtimeEvents, agentBus, reactorRegistry, wsDriver>>

\* images.get(imageId): the image of the record found, or null.
ImagesGet(imageId) ==
    /\ container' =
         IF \E k \in 1..Len(findAllImages(container)) :
                findAllImages(container)[k].imageId = imageId
         THEN return(container, "get", NoId, <<imageId>>, 0, "image")
         ELSE return(container, "get", NoId, <<imageId>>, 0, "null")
    /\ UNCHANGED <<driver, busLog, legacy, mirror, lastEvent, mirrorAgents, reactor, runtimeEvents, agentBus, reactorRegistry, wsDriver>>

\* images.delete(imageId).
ImagesDelete(imageId) ==
    /\ container' = return(imagesDelete(container, imageId), "delete", NoId,
                           <<imageId>>, 0, "")
    /\ UNCHANGED <<driver, busLog, legacy, mirror, lastEvent, mirrorAgents, reactor, runtimeEvents, agentBus, reactorRegistry, wsDriver>>

\* Snapshot and resume: containers and agents are created, agents receive
\* messages, are snapshotted and resumed.
NextImages ==
    \/ \E c \in ContainerIds : ContainersCreate(c)
    \/ \E c \in ContainerIds : RunAgent(c)
    \/ \E a \in AgentNums : RuntimeAgentReceive(a)
    \/ \E a \in AgentNums : ImagesSnapshot(a)
    \/ \E i \in 1..MaxImages : ImageResume(i)

SpecImages == Init /\ [][NextImages]_vars

\* Resume and dispose: agents are snapshotted, containers are disposed (one
\* dispose at a time) and created again, images are resumed.
NextImageResume ==
    \/ \E c \in ContainerIds : ContainersCreate(c)
    \/ \E c \in ContainerIds : RunAgent(c)
    \/ \E a \in AgentNums : ImagesSnapshot(a)
    \/ \E i \in 1..MaxImages : ImageResume(i)
    \/ \E c \in ContainerIds : container.calls = EmptyBag /\ Dispose(c)
    \/ \E call \in BagToSet(container.calls), ok \in BOOLEAN : AwaitDestroy(call, ok)

SpecImageResume == Init /\ [][NextImageResume]_vars

\* The image records of the persistence: agents are run and snapshotted,
\* images are listed, looked up and deleted.
NextImageRecords ==
    \/ \E c \in ContainerIds : ContainersCreate(c)
    \/ \E c \in ContainerIds : RunAgent(c)
    \/ \E a \in AgentNums : ImagesSnapshot(a)
    \/ ImagesList
    \/ \E i \in 1..MaxImages : ImagesGet(i)
    \/ \E i \in 1..MaxImages : ImagesDelete(i)

SpecImageRecords == Init /\ [][NextImageRecords]_vars

\* ------------------------------------------------------------ DriverReactor

\* The stream events driver.sendMessage yields for one user message when the
\* backend does not fail.
DriverStream == <<"message_start", "text_delta", "message_stop">>

\* context.producer.produce(event)
produce(s, type, messageId) ==
    [s EXCEPT !.produced = Append(@, [type |-> type, messageId |-> messageId])]

\* The finally block of handleUserMessage in call i, which ends with pc.
handleUserMessageFinally(s, i, pc) ==
    [s EXCEPT !.abortController = 0, !.calls[i].pc = pc]

\* A faulty variant of the catch block: the error is thrown again.
handleUserMessageRethrow(s, i) ==
    handleUserMessageFinally(s, i, "rejected")

\* The catch block of handleUserMessage in call i: an error_message event of
\* the agent is produced; the event carries no message id.
handleUserMessageCatch(s, i) ==
    handleUserMessageFinally(produce(s, "error_message", 0), i, "caught")

\* The body of the for-await loop in call i for a yielded stream event.
handleUserMessageForward(s, i) ==
    IF s.abortController # 0 /\ s.aborted[s.abortController]
    THEN handleUserMessageFinally(s, i, "completed")
    ELSE [produce(s, DriverStream[s.calls[i].pos + 1], i)
            EXCEPT !.calls[i].pos = @ + 1]

\* DriverReactor.initialize, which the engine calls once.
ReactorInitialize ==
    /\ ~reactor.subscribed
    /\ reactor' = [reactor EXCEPT !.context = TRUE, !.subscribed = TRUE]
    /\ UNCHANGED <<driver, busLog, legacy, mirror, lastEvent, mirrorAgents, container, runtimeEvents, agentBus, reactorRegistry, wsDriver>>

\* The consumer delivers a user_message: handleUserMessage runs up to the
\* first pull of the driver's stream. failAt says where the backend fails.
HandleUserMessage(failAt) ==
    /\ reactor.subscribed
    /\ Len(reactor.calls) < MaxUserMessages
    /\ LET i == Len(reactor.calls) + 1
           call == [pc |-> IF reactor.context THEN "pulling" ELSE "noContext",
                    pos |-> 0, failAt |-> failAt, driverAborted |-> FALSE]
       IN  reactor' =
             IF reactor.context
             THEN [reactor EXCEPT !.calls = Append(@, call),
                                  !.aborted = Append(@, FALSE),
                                  !.abortController = i]
             ELSE [reactor EXCEPT !.calls = Append(@, call),
                                  !.aborted = Append(@, FALSE)]
    /\ UNCHANGED <<driver, busLog, legacy, mirror, lastEvent, mirrorAgents, container, runtimeEvents, agentBus, reactorRegistry, wsDriver>>

\* The driver's stream settles the pull of call i: it throws at pull failAt,
\* yields the next stream event, or is done. After driver.abort() it may be
\* done at any pull (end = TRUE).
DriverNext(i, end) ==
    /\ reactor.calls[i].pc = "pulling"
    /\ end => reactor.calls[i].driverAborted
    /\ LET call == reactor.calls[i]
       IN  reactor' =
             IF end THEN handleUserMessageFinally(reactor, i, "completed")
             ELSE IF call.failAt = call.pos + 1 THEN handleUserMessageCatch(reactor, i)
             ELSE IF call.pos < Len(DriverStream) THEN handleUserMessageForward(reactor, i)
             ELSE handleUserMessageFinally(reactor, i, "completed")
    /\ UNCHANGED <<driver, busLog, legacy, mirror, lastEvent, mirrorAgents, container, runtimeEvents, agentBus, reactorRegistry, wsDriver>>

\* DriverReactor.destroy: the current AbortController is aborted and dropped,
\* driver.abort() and driver.destroy() are called, the context is dropped.
ReactorDestroy ==
    /\ reactor.context
    /\ reactor' =
         [reactor EXCEPT
            !.aborted = [k \in DOMAIN @ |-> @[k] \/ k = reactor.abortController],
            !.abortController = 0,
            !.calls = [k \in DOMAIN @ |->
                          IF @[k].pc = "pulling"
                          THEN [@[k] EXCEPT !.driverAborted = TRUE] ELSE @[k]],
            !.context = FALSE]
    /\ UNCHANGED <<driver, busLog, legacy, mirror, lastEvent, mirrorAgents, container, runtimeEvents, agentBus, reactorRegistry, wsDriver>>

NextReactor ==
    \/ ReactorInitialize
    \/ \E failAt \in 0..(Len(DriverStream) + 1) : HandleUserMessage(failAt)
    \/ \E i \in 1..Len(reactor.calls) : \E end \in BOOLEAN : DriverNext(i, end)
    \/ ReactorDestroy

SpecReactor == Init /\ [][NextReactor]_vars

\* ------------------------------------------------- RuntimeImpl events API

\* Set.add(handler): a handler the Set holds is not added again.
setAdd(handlers, handler) ==
    IF has(handlers, handler) THEN handlers ELSE Append(handlers, handler)

\* The unsubscribe function that registration r returned: the handler is
\* deleted from the Set it was added to.
unsubscribe(s, r) ==
    LET reg == s.registrations[r]
        marked == [s EXCEPT !.registrations[r].active = FALSE]
    IN  IF reg.type = "*"
        THEN [marked EXCEPT !.allEventHandlers = delete(@, reg.handler)]
        ELSE [marked EXCEPT !.eventHandlers[reg.type] = delete(@, reg.handler)]

\* The loops of emit over handlers from position i: each handler is called
\* with the event; a handler that throws ends the emit, for the loops catch
\* nothing.
RECURSIVE callHandlers(_, _, _, _)
callHandlers(s, handlers, i, thrower) ==
    IF i > Len(handlers) THEN s
    ELSE LET called == [s EXCEPT !.calls = Append(@, <<Len(s.events), handlers[i]>>)]
         IN  IF handlers[i] = thrower THEN called
             ELSE callHandlers(called, handlers, i + 1, thrower)

\* events.on(type, handler)
EventsOn(type, handler) ==
    /\ Len(runtimeEvents.registrations) < MaxRegistrations
    /\ runtimeEvents' =
         [runtimeEvents EXCEPT
            !.eventHandlers[type] = setAdd(@, handler),
            !.registrations = Append(@, [handler |-> handler, type |-> type, active |-> TRUE])]
    /\ UNCHANGED <<driver, busLog, legacy, mirror, lastEvent, mirrorAgents, container, reactor, agentBus, reactorRegistry, wsDriver>>

\* events.onAll(handler)
EventsOnAll(handler) ==
    /\ Len(runtimeEvents.registrations) < MaxRegistrations
    /\ runtimeEvents' =
         [runtimeEvents EXCEPT
            !.allEventHandlers = setAdd(@, handler),
            !.registrations = Append(@, [handler |-> handler, type |-> "*", active |-> TRUE])]
    /\ UNCHANGED <<driver, busLog, legacy, mirror, lastEvent, mirrorAgents, container, reactor, agentBus, reactorRegistry, wsDriver>>

\* The unsubscribe function of registration r is called.
EventsUnsubscribe(r) ==
    /\ runtimeEvents.registrations[r].active
    /\ runtimeEvents' = unsubscribe(runtimeEvents, r)
    /\ UNCHANGED <<driver, busLog, legacy, mirror, lastEvent, mirrorAgents, container, reactor, agentBus, reactorRegistry, wsDriver>>

\* The bus hands an event of a type to RuntimeImpl.emit (the constructor's
\* bus.onAny listener): the handlers of the type, then the handlers of all
\* events; thrower is the handler that throws for this event, if any.
RuntimeEmit(type, thrower) ==
    /\ Len(runtimeEvents.events) < MaxEmits
    /\ LET s == [runtimeEvents EXCEPT !.events = Append(@, type)]
           typed == callHandlers(s, s.eventHandlers[type], 1, thrower)
       IN  runtimeEvents' =
             IF has(s.eventHandlers[type], thrower) THEN typed
             ELSE callHandlers(typed, s.allEventHandlers, 1, thrower)
    /\ UNCHANGED <<driver, busLog, legacy, mirror, lastEvent, mirrorAgents, container, reactor, agentBus, reactorRegistry, wsDriver>>

NextRuntimeEvents ==
    \/ \E type \in EventTypes, handler \in Handlers : EventsOn(type, handler)
    \/ \E handler \in Handlers : EventsOnAll(handler)
    \/ \E r \in 1..Len(runtimeEvents.registrations) : EventsUnsubscribe(r)
    \/ \E type \in EventTypes, thrower \in Handlers \cup {NoId} : RuntimeEmit(type, thrower)

SpecRuntimeEvents == Init /\ [][NextRuntimeEvents]_vars

\* ------------------------------------------------------------ AgentEventBus

\* new ReplaySubject<UserMessageEvent>(10): the buffer size.
ReplayBufferSize == 10

\* The last n elements of a sequence.
lastN(seq, n) ==
    IF Len(seq) <= n THEN seq ELSE SubSeq(seq, Len(seq) - n + 1, Len(seq))

\* Subject.next(i) for one subscriber: a subscribed observer receives it.
next(sub, i) == IF sub.subscribed THEN [sub EXCEPT !.received = Append(@, i)] ELSE sub

\* AgentEventBus.emit(event): ignored when closed; else events$.next, which
\* inbound() filters to the events that are not user events, and for a user
\* event outbound$.next, which also buffers it.
emitAgentEvent(s, type) ==
    IF s.closed THEN s
    ELSE LET i == Len(s.events) + 1
             passed == [s EXCEPT !.events = Append(@, type)]
         IN  IF type = "user"
             THEN [passed EXCEPT !.buffer = lastN(Append(@, i), ReplayBufferSize),
                                 !.outbound = next(@, i)]
             ELSE [passed EXCEPT !.inbound = next(@, i)]

\* A faulty variant of the subscription to outbound(): a plain Subject,
\* nothing is replayed.
subscribeOutboundNoReplay(s) ==
    [s EXCEPT !.outbound = [subscribed |-> ~s.closed, at |-> Len(s.events),
                            received |-> << >>]]

\* A subscription to outbound(): the ReplaySubject first replays its buffer
\* to the new subscriber, also after it has completed.
subscribeOutbound(s) ==
    [s EXCEPT !.outbound = [subscribed |-> ~s.closed, at |-> Len(s.events),
                            received |-> s.buffer]]

\* A subscription to inbound(): a Subject replays nothing.
subscribeInbound(s) ==
    [s EXCEPT !.inbound = [subscribed |-> ~s.closed, at |-> Len(s.events),
                           received |-> << >>]]

\* bus.emit(event) is called with an event of a type.
AgentBusEmit(type) ==
    /\ Len(agentBus.events) < MaxAgentEvents
    /\ agentBus' = emitAgentEvent(agentBus, type)
    /\ UNCHANGED <<driver, busLog, legacy, mirror, lastEvent, mirrorAgents, container, reactor, runtimeEvents, reactorRegistry, wsDriver>>

\* The provider subscribes to bus.outbound(), once.
OutboundSubscribe ==
    /\ agentBus.outbound.at = 0 /\ ~agentBus.outbound.subscribed
    /\ agentBus' = subscribeOutbound(agentBus)
    /\ UNCHANGED <<driver, busLog, legacy, mirror, lastEvent, mirrorAgents, container, reactor, runtimeEvents, reactorRegistry, wsDriver>>

\* The agent subscribes to bus.inbound(), once.
InboundSubscribe ==
    /\ agentBus.inbound.at = 0 /\ ~agentBus.inbound.subscribed
    /\ agentBus' = subscribeInbound(agentBus)
    /\ UNCHANGED <<driver, busLog, legacy, mirror, lastEvent, mirrorAgents, container, reactor, runtimeEvents, reactorRegistry, wsDriver>>

\* AgentEventBus.close(): both subjects complete.
AgentBusClose ==
    /\ ~agentBus.closed
    /\ agentBus' = [agentBus EXCEPT !.closed = TRUE, !.outbound.subscribed = FALSE,
                                    !.inbound.subscribed = FALSE]
    /\ UNCHANGED <<driver, busLog, legacy, mirror, lastEvent, mirrorAgents, container, reactor, runtimeEvents, reactorRegistry, wsDriver>>

NextAgentBus ==
    \/ \E type \in {"user", "assistant"} : AgentBusEmit(type)
    \/ OutboundSubscribe
    \/ InboundSubscribe
    \/ AgentBusClose

SpecAgentBus == Init /\ [][NextAgentBus]_vars

\* ---------------------------------------------------------- ReactorRegistry

\* [...seq].reverse()
reverse(seq) == [k \in 1..Len(seq) |-> seq[Len(seq) + 1 - k]]

\* The loop of initialize from position i of this.reactors: suspended at
\* the next reactor.initialize, or done.
initializeFrom(s, i) ==
    IF i > Len(s.reactors) THEN [s EXCEPT !.pc = "idle", !.i = 0]
    ELSE [s EXCEPT !.pc = "initialize", !.i = i]

\* The end of destroy(): the maps are cleared.
destroyFinish(s) ==
    [s EXCEPT !.reactors = << >>, !.initOrder = << >>, !.pc = "idle",
              !.order = << >>, !.i = 0, !.destroys = @ + 1]

\* The loop of destroy() from position i of destroyOrder: ids that are not
\* registered or not initialized are skipped; the call is suspended at the
\* next reactor.destroy(), or finishes.
RECURSIVE destroyFrom(_, _, _)
destroyFrom(s, order, i) ==
    IF i > Len(order) THEN destroyFinish(s)
    ELSE IF ~has(s.reactors, order[i]) \/ order[i] \notin s.initialized
         THEN destroyFrom(s, order, i + 1)
         ELSE [s EXCEPT !.pc = "destroy", !.order = order, !.i = i]

\* A faulty variant of the catch in destroy's loop: the error ends the
\* loop.
destroySettledRethrow(s, ok) ==
    LET id == s.order[s.i]
        logged == [s EXCEPT !.destroyCalls = Append(@, [id |-> id, ok |-> ok])]
    IN  IF ok
        THEN destroyFrom([logged EXCEPT !.initialized = @ \ {id}], s.order, s.i + 1)
        ELSE [logged EXCEPT !.pc = "idle", !.order = << >>, !.i = 0, !.destroys = @ + 1]

\* The awaited reactor.destroy() settles: fulfilled, the id leaves
\* this.initialized; rejected, the error is logged; the loop goes on.
destroySettled(s, ok) ==
    LET id == s.order[s.i]
        logged == [s EXCEPT !.destroyCalls = Append(@, [id |-> id, ok |-> ok])]
    IN  destroyFrom(IF ok THEN [logged EXCEPT !.initialized = @ \ {id}] ELSE logged,
                    s.order, s.i + 1)

\* ReactorRegistry.register(reactor): an id already registered throws.
RegistryRegister(id) ==
    /\ ~has(reactorRegistry.reactors, id)
    /\ reactorRegistry' = [reactorRegistry EXCEPT !.reactors = Append(@, id)]
    /\ UNCHANGED <<driver, busLog, legacy, mirror, lastEvent, mirrorAgents, container, reactor, runtimeEvents, agentBus, wsDriver>>

\* ReactorRegistry.initialize() is called, once in the life of the registry.
RegistryInitialize ==
    /\ reactorRegistry.pc = "idle"
    /\ ~reactorRegistry.initializeCalled
    /\ reactorRegistry' = initializeFrom([reactorRegistry EXCEPT !.initializeCalled = TRUE], 1)
    /\ UNCHANGED <<driver, busLog, legacy, mirror, lastEvent, mirrorAgents, container, reactor, runtimeEvents, agentBus, wsDriver>>

\* The awaited reactor.initialize(context) settles: fulfilled, the reactor is
\* recorded and the loop goes on; rejected, initialize() throws.
RegistryInitializeSettled(ok) ==
    /\ reactorRegistry.pc = "initialize"
    /\ LET id == reactorRegistry.reactors[reactorRegistry.i]
       IN  reactorRegistry' =
             IF ok
             THEN initializeFrom([reactorRegistry EXCEPT !.initialized = @ \cup {id},
                                                         !.initOrder = Append(@, id),
                                                         !.initLog = Append(@, id)],
                                 reactorRegistry.i + 1)
             ELSE [reactorRegistry EXCEPT !.pc = "idle", !.i = 0]
    /\ UNCHANGED <<driver, busLog, legacy, mirror, lastEvent, mirrorAgents, container, reactor, runtimeEvents, agentBus, wsDriver>>

\* ReactorRegistry.destroy() is called.
RegistryDestroy ==
    /\ reactorRegistry.pc = "idle"
    /\ reactorRegistry.destroys < MaxDisposes
    /\ reactorRegistry' = destroyFrom([reactorRegistry EXCEPT !.destroyCalls = << >>],
                                      reverse(reactorRegistry.initOrder), 1)
    /\ UNCHANGED <<driver, busLog, legacy, mirror, lastEvent, mirrorAgents, container, reactor, runtimeEvents, agentBus, wsDriver>>

\* The reactor.destroy() that destroy() awaits settles.
RegistryDestroySettled(ok) ==
    /\ reactorRegistry.pc = "destroy"
    /\ reactorRegistry' = destroySettled(reactorRegistry, ok)
    /\ UNCHANGED <<driver, busLog, legacy, mirror, lastEvent, mirrorAgents, container, reactor, runtimeEvents, agentBus, wsDriver>>

NextReactorRegistry ==
    \/ \E id \in 1..MaxReactors : RegistryRegister(id)
    \/ RegistryInitialize
    \/ \E ok \in BOOLEAN : RegistryInitializeSettled(ok)
    \/ RegistryDestroy
    \/ \E ok \in BOOLEAN : RegistryDestroySettled(ok)

SpecReactorRegistry == Init /\ [][NextReactorRegistry]_vars

\* ---------------------------------------------------------- WebSocketDriver

\* The events a server sends to a WebSocketDriver.
WsEventTypes == {"text_delta", "message_stop"}

\* The end of sendSingleMessage: the finally block removes the listener.
wsFinish(s) == [s EXCEPT !.pc = "done", !.listening = FALSE]

\* The loops of sendSingleMessage from the head of the inner loop: the next
\* queued event is yielded; with none queued the outer condition is
\* evaluated: the stream ends if isDone, and else awaits the 10 ms timer.
wsDrain(s) ==
    IF s.events # << >>
    THEN [s EXCEPT !.pc = "yielded", !.yielded = Head(s.events), !.events = Tail(s.events)]
    ELSE IF s.isDone THEN wsFinish(s)
    ELSE [s EXCEPT !.pc = "waiting"]

\* sendSingleMessage up to its first await: without an open socket it
\* throws; else the listener is pushed and the message is sent.
sendSingleMessage(s) ==
    IF s.ws # "open" THEN [s EXCEPT !.pc = "thrown"]
    ELSE [s EXCEPT !.listening = TRUE, !.events = << >>, !.isDone = FALSE,
                   !.pc = "waiting"]

\* sendMessage(message) with one message: the consumer starts the stream.
\* connect() throws on a destroyed driver, else opens a socket.
WsSendMessage ==
    /\ wsDriver.pc \in {"idle", "done", "thrown"}
    /\ wsDriver.sends < MaxSends
    /\ LET s == [wsDriver EXCEPT !.sends = @ + 1, !.stopped = FALSE, !.yielded = ""]
       IN  wsDriver' =
             IF s.ws = "open" THEN sendSingleMessage(s)
             ELSE IF s.isDestroyed THEN [s EXCEPT !.pc = "thrown"]
             ELSE [s EXCEPT !.ws = "connecting", !.pc = "connecting"]
    /\ UNCHANGED <<driver, busLog, legacy, mirror, lastEvent, mirrorAgents, container, reactor, runtimeEvents, agentBus, reactorRegistry>>

\* The promise of connect() settles: onopen resolves it and sendMessage goes
\* on to sendSingleMessage; onerror or the connection timeout rejects it.
\* A socket that destroy() closed does not open.
WsConnectSettled(ok) ==
    /\ wsDriver.pc = "connecting"
    /\ ok => wsDriver.ws = "connecting"
    /\ wsDriver' =
         IF ok THEN sendSingleMessage([wsDriver EXCEPT !.ws = "open"])
         ELSE [wsDriver EXCEPT !.pc = "thrown",
                               !.ws = IF @ = "connecting" THEN "none" ELSE @]
    /\ UNCHANGED <<driver, busLog, legacy, mirror, lastEvent, mirrorAgents, container, reactor, runtimeEvents, agentBus, reactorRegistry>>

\* ws.onmessage: every listener is called with the event; handleEvent sets
\* isDone on message_stop and queues the event.
WsOnMessage(type) ==
    /\ wsDriver.ws = "open"
    /\ wsDriver.received < MaxWsMessages
    /\ wsDriver' =
         IF wsDriver.listening
         THEN [wsDriver EXCEPT !.received = @ + 1,
                               !.isDone = @ \/ type = "message_stop",
                               !.events = Append(@, type)]
         ELSE [wsDriver EXCEPT !.received = @ + 1]
    /\ UNCHANGED <<driver, busLog, legacy, mirror, lastEvent, mirrorAgents, container, reactor, runtimeEvents, agentBus, reactorRegistry>>

\* The 10 ms timer of the outer loop runs out and the stream resumes at
\* the inner loop.
WsTimer ==
    /\ wsDriver.pc = "waiting"
    /\ wsDriver' = wsDrain(wsDriver)
    /\ UNCHANGED <<driver, busLog, legacy, mirror, lastEvent, mirrorAgents, container, reactor, runtimeEvents, agentBus, reactorRegistry>>

\* The consumer asks for the next event: the stream resumes after its yield;
\* after message_stop it sets isDone and leaves the inner loop.
WsConsumerNext ==
    /\ wsDriver.pc = "yielded"
    /\ wsDriver' =
         IF wsDriver.yielded = "message_stop"
         THEN wsFinish([wsDriver EXCEPT !.isDone = TRUE])
         ELSE wsDrain(wsDriver)
    /\ UNCHANGED <<driver, busLog, legacy, mirror, lastEvent, mirrorAgents, container, reactor, runtimeEvents, agentBus, reactorRegistry>>

\* WebSocketDriver.abort(): the listeners are dropped.
WsAbort ==
    /\ wsDriver' = [wsDriver EXCEPT !.listening = FALSE,
                      !.stopped = @ \/ wsDriver.pc \in {"connecting", "waiting", "yielded"}]
    /\ UNCHANGED <<driver, busLog, legacy, mirror, lastEvent, mirrorAgents, container, reactor, runtimeEvents, agentBus, reactorRegistry>>

\* WebSocketDriver.destroy(): the listeners are dropped and the socket is
\* closed.
WsDestroy ==
    /\ wsDriver' = [wsDriver EXCEPT !.isDestroyed = TRUE, !.listening = FALSE,
                      !.ws = "none",
                      !.stopped = @ \/ wsDriver.pc \in {"connecting", "waiting", "yielded"}]
    /\ UNCHANGED <<driver, busLog, legacy, mirror, lastEvent, mirrorAgents, container, reactor, runtimeEvents, agentBus, reactorRegistry>>

NextWsDriver ==
    \/ WsSendMessage
    \/ \E ok \in BOOLEAN : WsConnectSettled(ok)
    \/ \E type \in WsEventTypes : WsOnMessage(type)
    \/ WsTimer
    \/ WsConsumerNext
    \/ WsAbort
    \/ WsDestroy

SpecWsDriver == Init /\ [][NextWsDriver]_vars

\* The timers run out, the connection attempt settles (it has a connection
\* timeout) and the consumer keeps asking for the next event.  Nothing is
\* assumed of the server.
SpecWsDriverFair ==
    /\ SpecWsDriver
    /\ WF_vars(WsTimer)
    /\ WF_vars(WsConsumerNext)
    /\ WF_vars(\E ok \in BOOLEAN : WsConnectSettled(ok))

\* ------------------------------------------------------------- properties

\* A DriveableEvent as the data model defines it: emitted by the environment,
\* with a type of the driveable vocabulary.
DriveableEvent(event) == event.source = "environment" /\ event.type \in driveableTypes

\* The DriveableEvents emitted on the bus since driver d's current exchange
\* emitted its user_message, in emission order.
DriveableSince(d) ==
    SelectSeq(SubSeq(busLog, driver[d].start + 1, Len(busLog)), DriveableEvent)

\* The prefix of a sequence of events up to and including its first terminal
\* event (the whole sequence if it has none).
RECURSIVE UpToTerminal(_)
UpToTerminal(events) ==
    IF events = << >> THEN << >>
    ELSE IF isTerminal(Head(events).type) THEN <<Head(events)>>
    ELSE <<Head(events)>> \o UpToTerminal(Tail(events))

\* The StreamEvents of a sequence of DriveableEvents.
StreamOf(events) == [i \in 1..Len(events) |-> toStreamEvent(events[i])]

IsPrefix(s, t) == Len(s) <= Len(t) /\ SubSeq(t, 1, Len(s)) = s

\* The exchange of driver d ran to its end with no interrupt(), no timeout and
\* no early return by the caller.
Completed(d) == driver[d].pc = "done" /\ ~driver[d].aborted

\* C1: when the DriveableEvents emitted during an exchange contain a
\* message_stop, nothing emitted after that message_stop is ever yielded, and
\* an exchange that runs to completion (not interrupted, timed out or
\* abandoned by its caller) and whose first terminal event is that
\* message_stop has yielded it last.
C1_StopEndsExchange ==
    \A d \in Agents :
        LET ev == DriveableSince(d)
            stops == {i \in 1..Len(ev) : ev[i].type = "message_stop"}
        IN  stops # {} =>
              LET k == CHOOSE i \in stops : \A j \in stops : i <= j
              IN  /\ \A i \in 1..Len(driver[d].yielded) :
                        driver[d].yielded[i].data <= ev[k].data
                  /\ (Completed(d) /\ \A j \in 1..(k - 1) : ~isTerminal(ev[j].type))
                        => /\ driver[d].yielded # << >>
                           /\ driver[d].yielded[Len(driver[d].yielded)] = toStreamEvent(ev[k])

\* C1 witness: a completed exchange ended by message_stop, with a further
\* DriveableEvent emitted after the stop.
C1_Witness ==
    \E d \in Agents :
        /\ Completed(d)
        /\ driver[d].yielded # << >>
        /\ driver[d].yielded[Len(driver[d].yielded)].type = "message_stop"
        /\ Len(driver[d].yielded) >= 2
        /\ Len(DriveableSince(d)) > Len(driver[d].yielded)

\* C2 (as claimed): the timer is re-armed on every received DriveableEvent,
\* so an exchange that is still open after receiving events has a pending
\* timer.
C2_TimerRearmed ==
    \A d \in Agents :
        (/\ driver[d].pc \in {"waiting", "yielded"}
         /\ ~driver[d].closed
         /\ DriveableSince(d) # << >>) => driver[d].timeoutId

\* C3 (as claimed): every event yielded by an exchange was emitted on the bus
\* with source "environment" and an allow-listed type.  Stated of the
\* inline-array revision.
C3_OnlyEnvironmentYielded ==
    \A i \in 1..Len(legacy.yielded) :
        /\ DriveableEvent(busLog[legacy.yielded[i].data])
        /\ legacy.yielded[i].type = streamType(busLog[legacy.yielded[i].data].type)

\* The same statement of the AsyncQueue driver, whose isDriveableEvent checks
\* the source.
C3_QueueDriverFiltered ==
    \A d \in Agents :
        \A i \in 1..Len(driver[d].yielded) :
            /\ DriveableEvent(busLog[driver[d].yielded[i].data])
            /\ driver[d].yielded[i].type = streamType(busLog[driver[d].yielded[i].data].type)

\* C4: no DriveableEvent emitted at or after the user_message emission is
\* lost: in an exchange that was not interrupted and did not time out, the
\* events yielded so far followed by the queued ones are the DriveableEvents
\* emitted since the user_message, up to the first terminal one.
C4_NoEventLost ==
    \A d \in Agents :
        (/\ driver[d].pc \in {"waiting", "yielded", "done"}
         /\ ~driver[d].aborted
         /\ ~driver[d].timedOut)
        => driver[d].yielded \o StreamOf(driver[d].items)
             = StreamOf(UpToTerminal(DriveableSince(d)))

\* C4 witness: an event emitted inside the emit(user_message) call has been
\* yielded.
C4_Witness ==
    \E d \in Agents :
        /\ driver[d].sync >= 1
        /\ driver[d].yielded # << >>
        /\ driver[d].yielded[1].data = driver[d].start + 2

C6_Released ==
    \A d \in Agents :
        driver[d].pc \in {"done", "threw", "returned"}
            => ~driver[d].subscribed /\ ~driver[d].timeoutId

\* C6 witness: one exchange ended by the timeout error and another one ended
\* after an interrupt.
C6_Witness ==
    \E d1, d2 \in Agents :
        /\ driver[d1].pc = "threw"
        /\ driver[d2].pc = "done"
        /\ driver[d2].interruptAt # -1

\* C7: the events yielded by an exchange are, in emission order and each
\* once, a prefix of the DriveableEvents emitted for it up to its first
\* terminal event, and all of them once the exchange has completed.
C7_OrderedExactlyOnce ==
    \A d \in Agents :
        driver[d].pc # "idle" =>
            /\ IsPrefix(driver[d].yielded, StreamOf(UpToTerminal(DriveableSince(d))))
            /\ Completed(d) =>
                  driver[d].yielded = StreamOf(UpToTerminal(DriveableSince(d)))

\* C7 witness: a completed exchange that yielded three events, two of which
\* had been queued while the consumer was suspended.
C7_Witness ==
    \E d \in Agents :
        /\ Completed(d)
        /\ Len(driver[d].yielded) >= 3

\* C8 (as claimed): a driver yields only events whose context.agentId is its
\* own agent.
C8_ScopeIsolation ==
    \A d \in Agents :
        \A i \in 1..Len(driver[d].yielded) :
            busLog[driver[d].yielded[i].data].agentId = d

\* Request r is an outstanding run in state m: its promise is pending and
\* its container object holds its pendingRuns entry.
OutstandingRun(m, r) ==
    /\ r \in 1..Len(m.requests)
    /\ m.requests[r].kind = "run"
    /\ m.requests[r].status = "pending"
    /\ r \in m.cobjs[m.requests[r].obj].pendingRuns

\* C9: an agent_run_response changes mirror state only when its requestId is
\* that of an outstanding run, and then only in that run's container; every
\* other outstanding run keeps its pending entry and its unsettled promise.
\* An outstanding run is settled only by a response with its own requestId or
\* by its own timer.
C9_RunCorrelation ==
    [][ /\ lastEvent'.type = "agent_run_response" =>
              /\ OutstandingRun(mirror, lastEvent'.requestId)
              /\ \A o \in 1..Len(mirror.cobjs) :
                    o # mirror.requests[lastEvent'.requestId].obj
                        => mirror'.cobjs[o] = mirror.cobjs[o]
              /\ \A r \in 1..Len(mirror.requests) :
                    (OutstandingRun(mirror, r) /\ r # lastEvent'.requestId)
                        => /\ OutstandingRun(mirror', r)
                           /\ mirror'.requests[r] = mirror.requests[r]
        /\ \A r \in 1..Len(mirror.requests) :
              (OutstandingRun(mirror, r) /\ ~OutstandingRun(mirror', r))
                  => \/ lastEvent' = [type |-> "agent_run_response", requestId |-> r]
                     \/ /\ lastEvent' = NoEvent
                        /\ mirror.requests[r].timer
                        /\ ~mirror'.requests[r].timer
                        /\ mirror'.requests[r].error = "timeout"
      ]_vars

\* C9 witness: an agent_run_response has just settled one run of a container
\* while another run of the same container, with a different requestId, is
\* outstanding.
C9_Witness ==
    /\ lastEvent.type = "agent_run_response"
    /\ \E r \in 1..Len(mirror.requests) :
          /\ OutstandingRun(mirror, r)
          /\ r # lastEvent.requestId
          /\ mirror.requests[r].obj = mirror.requests[lastEvent.requestId].obj

\* The timer of request r has fired and found the request unanswered.
TimedOut(m, r) ==
    /\ r \in 1..Len(m.requests)
    /\ ~m.requests[r].timer
    /\ m.requests[r].error = "timeout"

\* Request r has an entry in the pending table (or slot) of its kind.
HasPendingEntry(m, r) ==
    \/ r \in m.pendingCreates \cup m.pendingSnapshots \cup m.pendingLists
    \/ \E o \in 1..Len(m.cobjs) : r \in m.cobjs[o].pendingRuns
    \/ \E io \in 1..Len(m.iobjs) : m.iobjs[io].pendingResume = r

\* C10 (as claimed): a request whose timer has fired is no longer pending -
\* its promise was settled by its response or rejected with the timeout
\* error - and has no pending entry; and no response carrying the requestId
\* of a timed-out request changes the mirror state.
C10_TimeoutThenDropped ==
    /\ [](\A r \in 1..Len(mirror.requests) :
            ~mirror.requests[r].timer
                => /\ mirror.requests[r].status # "pending"
                   /\ ~HasPendingEntry(mirror, r))
    /\ [][lastEvent' # NoEvent => ~TimedOut(mirror, lastEvent'.requestId)]_vars

\* The same statement restricted to the requests whose pending entries are
\* keyed by requestId (create, run, snapshot, list).
C10_KeyedRequests ==
    /\ [](\A r \in 1..Len(mirror.requests) :
            (mirror.requests[r].kind # "resume" /\ ~mirror.requests[r].timer)
                => /\ mirror.requests[r].status # "pending"
                   /\ ~HasPendingEntry(mirror, r))
    /\ [][(lastEvent' # NoEvent /\ lastEvent'.type # "image_resume_response")
              => ~TimedOut(mirror, lastEvent'.requestId)]_vars

\* C11 (as claimed): a server event settles a pending resume request only
\* when it is an image_resume_response carrying that request's requestId.
C11_ResumeCorrelation ==
    [][\A r \in 1..Len(mirror.requests) :
          (/\ mirror.requests[r].kind = "resume"
           /\ mirror.requests[r].status = "pending"
           /\ mirror'.requests[r].status # "pending"
           /\ lastEvent' # NoEvent)
              => lastEvent' = [type |-> "image_resume_response", requestId |-> r]
      ]_vars

\* C12 (as claimed): every request that is pending is eventually settled, by
\* its response or, when none comes, by its own timer.
C12_EventuallySettled ==
    \A r \in 1..MaxRequests :
        (r \in 1..Len(mirror.requests) /\ mirror.requests[r].status = "pending")
            ~> (r \in 1..Len(mirror.requests) /\ mirror.requests[r].status # "pending")

\* C13: when an agent_destroyed notification for this container names an
\* agent the container holds, the agent is removed from the map, its
\* lifecycle becomes destroyed, agentCount drops by exactly one and no other
\* agent is touched.
C13_AgentDestroyedNotification ==
    [][(/\ mirrorAgents'.lastOp.op = "agent_destroyed"
        /\ mirrorAgents'.lastOp.containerId = "c1"
        /\ mirrorAgents.agents[mirrorAgents'.lastOp.agentId] # 0)
          => LET a == mirrorAgents'.lastOp.agentId
                 o == mirrorAgents.agents[a]
             IN  /\ mirrorAgents'.agents = [mirrorAgents.agents EXCEPT ![a] = 0]
                 /\ mirrorAgents'.objs = [mirrorAgents.objs EXCEPT ![o].lifecycle = "destroyed"]
                 /\ mirrorAgents'.agentCount = mirrorAgents.agentCount - 1
                 /\ mirrorAgents'.agentCount = size(mirrorAgents'.agents)
      ]_vars

\* C13 witness: an agent_destroyed notification has just removed one of two
\* held agents while no run request was pending.
C13_Witness ==
    /\ mirrorAgents.lastOp.op = "agent_destroyed"
    /\ mirrorAgents.lastOp.obj # 0
    /\ mirrorAgents.objs[mirrorAgents.lastOp.obj].lifecycle = "destroyed"
    /\ mirrorAgents.pendingRuns = {}
    /\ mirrorAgents.agentCount = 1

\* The local calls on the MirrorContainer and its MirrorAgents.
LocalOps == {"run", "timeout", "destroy", "receive", "interrupt", "stop", "resume"}

\* C14 (as claimed): a step that is a local call leaves the container's
\* agent map and agentCount and every MirrorAgent's lifecycle unchanged; they
\* change only in a step that handles a server event.
C14_SingleWriter ==
    [][mirrorAgents'.lastOp.op \in LocalOps
          => /\ mirrorAgents'.agents = mirrorAgents.agents
             /\ mirrorAgents'.agentCount = mirrorAgents.agentCount
             /\ \A o \in 1..Len(mirrorAgents.objs) :
                   mirrorAgents'.objs[o].lifecycle = mirrorAgents.objs[o].lifecycle
      ]_vars

\* C15 (as claimed): every request event sent upstream carries a requestId.
C15_RequestIdOnEveryRequest ==
    mirrorAgents.sent # NoRequest => mirrorAgents.sent.requestId

C17_StoppedAgentRejectsReceive ==
    [][LET after == mirrorAgents'.lastOp
       IN  (after.op = "receive" /\ mirrorAgents.objs[after.obj].lifecycle = "stopped")
             => /\ after.result = "Cannot send message to stopped agent"
                /\ mirrorAgents'.sent = NoRequest
                /\ mirrorAgents'.objs = mirrorAgents.objs
                /\ mirrorAgents'.agents = mirrorAgents.agents
                /\ mirrorAgents'.agentCount = mirrorAgents.agentCount
      ]_vars

\* C17 witness: a receive() on a stopped agent has just been rejected.
C17_Witness ==
    /\ mirrorAgents.lastOp.op = "receive"
    /\ mirrorAgents.lastOp.result = "Cannot send message to stopped agent"
    /\ mirrorAgents.objs[mirrorAgents.lastOp.obj].lifecycle = "stopped"

C19_UnknownDestroyReturnsFalse ==
    [][(/\ container'.returned.op \in {"destroyAgent", "agents.destroy"}
        /\ container'.calls = container.calls
        /\ \A c \in ContainerIds : ~has(container.agents[c], container'.returned.agentId))
          => /\ container'.returned.result = "false"
             /\ container'.emitted = container.emitted
             /\ container'.agents = container.agents
             /\ container'.lifecycle = container.lifecycle
             /\ container'.registry = container.registry]_vars

\* C19 witness: the destroy of an agent that was destroyed before has just
\* returned false, while another agent is still registered and the first
\* agent's agent_unregistered has been emitted once.
C19_Witness ==
    /\ container.returned.op \in {"destroyAgent", "agents.destroy"}
    /\ container.returned.result = "false"
    /\ container.returned.agentId \in 1..Len(container.lifecycle)
    /\ container.lifecycle[container.returned.agentId] = "destroyed"
    /\ \E c \in ContainerIds : container.agents[c] # << >>
    /\ \E c \in ContainerIds :
          CopiesIn([type |-> "agent_unregistered", containerId |-> c,
                    agentId |-> container.returned.agentId], container.emitted) = 1

\* C20: when destroyAllAgents has completed, it has not thrown, and every
\* agent of the container it started with is destroyed and unregistered.
C20_DestroyAllIgnoresFailures ==
    container.returned.op = "destroyAllAgents"
        => /\ container.returned.result = "done"
           /\ \A k \in 1..Len(container.returned.ids) :
                 /\ container.lifecycle[container.returned.ids[k]] = "destroyed"
                 /\ ~has(container.agents[container.returned.containerId],
                         container.returned.ids[k])

\* C21: when dispose() of a container has completed, every agent that was
\* in the container is destroyed, the container holds no agent and is not
\* in the runtime's registry, and its record is still persisted.
C21_DisposeEmptiesContainer ==
    (container.returned.op = "dispose" /\ container.returned.result = "done")
        => /\ \A k \in 1..Len(container.returned.ids) :
                 container.lifecycle[container.returned.ids[k]] = "destroyed"
           /\ container.agents[container.returned.containerId] = << >>
           /\ ~has(container.registry, container.returned.containerId)
           /\ container.returned.containerId \in container.records

\* C22: resume() of an image whose container is not in the live registry
\* (it has been disposed) fails with "Container not found", and creates and
\* registers no agent; the image record and the container record persist.
C22_ResumeAfterDispose ==
    [][(/\ container'.returned.op = "resume"
        /\ container' # container
        /\ ~has(container.registry, container'.returned.containerId))
          => /\ container'.returned.result = "Container not found"
             /\ container'.lifecycle = container.lifecycle
             /\ container'.agents = container.agents
             /\ container'.emitted = container.emitted
             /\ container'.images = container.images
             /\ container'.registry = container.registry]_vars

\* C22 witness: the container of a stored image has been disposed (its
\* record persists, it is not in the registry), and a resume() of the image
\* has just failed.
C22_Witness ==
    /\ container.returned.op = "resume"
    /\ container.returned.result = "Container not found"
    /\ container.images[container.returned.ids[1]].stored
    /\ container.returned.containerId \in container.records
    /\ ~has(container.registry, container.returned.containerId)
    /\ CopiesIn([type |-> "container_destroyed", containerId |-> container.returned.containerId,
                 agentId |-> 0], container.emitted) = 1

\* C23: a snapshot stores the agent's containerId and the messages its
\* session holds at that moment; a stored image's messages never change;
\* and a resume that succeeds yields a new agent B, with an id no agent had
\* (so different from the snapshotted agent A's), in A's container, with
\* lifecycle running and a session equal to the image's messages, whatever
\* A has received since the snapshot.
C23_SnapshotResumeRoundTrip ==
    [][LET ret == container'.returned
       IN  /\ \A i \in 1..Len(container.images) :
                 /\ container'.images[i].messages = container.images[i].messages
                 /\ container'.images[i].containerId = container.images[i].containerId
           /\ (ret.op = "snapshot" /\ container' # container)
                => /\ Len(container'.images) = Len(container.images) + 1
                   /\ container'.images[ret.ids[1]].messages = container.sessions[ret.agentId]
                   /\ container'.images[ret.ids[1]].containerId = container.owner[ret.agentId]
                   /\ container'.images[ret.ids[1]].agentId = ret.agentId
           /\ (ret.op = "resume" /\ ret.result = "agent" /\ container' # container)
                => LET image == container.images[ret.ids[1]]
                       B == ret.agentId
                   IN  /\ B \notin 1..Len(container.lifecycle)
                       /\ B # image.agentId
                       /\ Len(container'.lifecycle) = Len(container.lifecycle) + 1
                       /\ container'.owner[B] = container.owner[image.agentId]
                       /\ has(container'.agents[container.owner[image.agentId]], B)
                       /\ container'.lifecycle[B] = "running"
                       /\ container'.sessions[B] = image.messages
                       /\ \A a \in 1..Len(container.sessions) :
                             container'.sessions[a] = container.sessions[a]
      ]_vars

\* C23 witness: an agent received a message, was snapshotted, received
\* another message, and the image has just been resumed: the new agent
\* holds the one message of the image, the snapshotted agent holds two.
C23_Witness ==
    /\ container.returned.op = "resume"
    /\ container.returned.result = "agent"
    /\ LET image == container.images[container.returned.ids[1]]
       IN  /\ Len(image.messages) >= 1
           /\ container.sessions[container.returned.agentId] = image.messages
           /\ Len(container.sessions[image.agentId]) > Len(image.messages)
           /\ container.lifecycle[container.returned.agentId] = "running"

\* The image ids snapshotted so far and not deleted.
LiveImages == {i \in 1..Len(container.images) : container.images[i].stored}

\* C30: a record is stored by a snapshot and removed only by a delete of its
\* id; images.list() returns every image snapshotted and not deleted exactly
\* once and nothing else; images.get(id) returns the image for such an id
\* and null for a deleted or never-created id.
C30_ImageRegistryRoundTrips ==
    [][LET ret == container'.returned
           live == {i \in 1..Len(container.images) : container.images[i].stored}
           liveAfter == {i \in 1..Len(container'.images) : container'.images[i].stored}
       IN  /\ (ret.op = "snapshot" /\ container' # container)
                => liveAfter = live \cup {Len(container.images) + 1}
           /\ (ret.op = "delete" /\ container' # container)
                => liveAfter = live \ {ret.ids[1]}
           /\ (ret.op \notin {"snapshot", "delete"}) => liveAfter = live
           /\ (ret.op = "list" /\ container' # container)
                => /\ Len(ret.ids) = Cardinality(live)
                   /\ \A i \in live : \E k \in 1..Len(ret.ids) : ret.ids[k] = i
           /\ (ret.op = "get" /\ container' # container)
                => ret.result = (IF ret.ids[1] \in live THEN "image" ELSE "null")
      ]_vars

\* C30 witness: two snapshots were taken, one image was deleted, and list()
\* has just returned the one that is left.
C30_Witness ==
    /\ container.returned.op = "list"
    /\ Len(container.images) = 2
    /\ Cardinality(LiveImages) = 1
    /\ Len(container.returned.ids) = 1
    /\ container.returned.ids[1] \in LiveImages

\* The state updateState sets for a stream event.
StateAfter(eventType) ==
    CASE eventType = "message_start" -> "thinking"
      [] eventType = "text_delta" -> "responding"
      [] eventType = "tool_call" -> "awaiting_tool_result"
      [] eventType = "message_stop" -> "idle"

\* C24: a new agent is idle; a message_start, text_delta, tool_call or
\* message_stop handled by an agent sets its state to thinking, responding,
\* awaiting_tool_result or idle; and an agent's state changes in no other
\* step.
C24_StateFollowsStreamEvents ==
    [][LET op == mirrorAgents'.lastOp
           stream == {"message_start", "text_delta", "tool_call", "message_stop"}
       IN  /\ \A o \in 1..Len(mirrorAgents'.objs) :
                 o > Len(mirrorAgents.objs) => mirrorAgents'.objs[o].state = "idle"
           /\ (op.op \in stream /\ op.obj # 0)
                => mirrorAgents'.objs[op.obj].state = StateAfter(op.op)
           /\ \A o \in 1..Len(mirrorAgents.objs) :
                 mirrorAgents'.objs[o].state # mirrorAgents.objs[o].state
                    => op.op \in stream /\ op.obj = o
      ]_vars

\* C24 witness: one agent has just handled message_stop and is idle, while
\* another, after a tool_call, is awaiting the tool's result.
C24_Witness ==
    /\ mirrorAgents.lastOp.op = "message_stop"
    /\ mirrorAgents.lastOp.obj # 0
    /\ mirrorAgents.objs[mirrorAgents.lastOp.obj].state = "idle"
    /\ \E o \in 1..Len(mirrorAgents.objs) :
          mirrorAgents.objs[o].state = "awaiting_tool_result"

\* C25: an interrupted event (the end of an exchange by an error, a timeout
\* or an interrupt) handled by an agent leaves its lifecycle as it was and
\* its state idle.
C25_InterruptedResetsState ==
    [][LET op == mirrorAgents'.lastOp
       IN  (op.op = "interrupted" /\ op.obj # 0)
             => /\ mirrorAgents'.objs[op.obj].lifecycle = mirrorAgents.objs[op.obj].lifecycle
                /\ mirrorAgents'.objs[op.obj].state = "idle"
      ]_vars

\* The stream events produced for user message i, in order.
Forwarded(i) ==
    LET own == SelectSeq(reactor.produced, LAMBDA e : e.messageId = i)
    IN  [k \in 1..Len(own) |-> own[k].type]

\* The error_message events produced so far.
ErrorEvents == SelectSeq(reactor.produced, LAMBDA e : e.type = "error_message")

\* C26: no handleUserMessage call is rejected; each call in which the driver
\* failed has produced one error_message event; and a call whose driver did
\* not fail (and was not aborted) has had its whole stream forwarded, whatever
\* happened to the calls before it.
C26_DriverFailureIsForwarded ==
    /\ \A i \in 1..Len(reactor.calls) : reactor.calls[i].pc # "rejected"
    /\ Len(ErrorEvents) = Cardinality({i \in 1..Len(reactor.calls) : reactor.calls[i].pc = "caught"})
    /\ \A i \in 1..Len(reactor.calls) :
          (reactor.calls[i].pc = "completed" /\ reactor.calls[i].failAt = 0
             /\ ~reactor.calls[i].driverAborted)
            => Forwarded(i) = DriverStream

\* C26 witness: the driver failed in the first call, an error_message was
\* produced, and the next user message's whole stream was forwarded after it.
C26_Witness ==
    /\ Len(reactor.calls) >= 2
    /\ reactor.calls[1].pc = "caught"
    /\ reactor.calls[2].pc = "completed"
    /\ Forwarded(2) = DriverStream
    /\ \E k \in 1..Len(reactor.produced) :
          /\ reactor.produced[k].type = "error_message"
          /\ \A j \in 1..k : reactor.produced[j].messageId # 2

\* C27: agent_registered is emitted once for an agent, which is then in its
\* container's registry or has been unregistered; agent_unregistered is
\* emitted once for an agent, after its agent_registered and when the
\* agent is out of the registry; and when a dispose completes, the
\* agent_unregistered of every agent run in the container has been emitted
\* before its container_destroyed.
C27_NotificationsOrdered ==
    LET registered(c, a) == [type |-> "agent_registered", containerId |-> c, agentId |-> a]
        unregistered(c, a) == [type |-> "agent_unregistered", containerId |-> c, agentId |-> a]
    IN  /\ \A c \in ContainerIds, a \in 1..Len(container.lifecycle) :
              /\ CopiesIn(registered(c, a), container.emitted)
                    = (IF container.owner[a] = c THEN 1 ELSE 0)
              /\ CopiesIn(unregistered(c, a), container.emitted) <= 1
              /\ CopiesIn(unregistered(c, a), container.emitted) = 1
                    => /\ CopiesIn(registered(c, a), container.emitted) = 1
                       /\ ~has(container.agents[c], a)
        /\ (container.returned.op = "dispose" /\ container.returned.result = "done")
              => \A a \in 1..Len(container.lifecycle) :
                    container.owner[a] = container.returned.containerId
                       => CopiesIn(unregistered(container.owner[a], a), container.emitted) = 1

\* C28: a containers.create(id) called while a container with that id is in
\* the live registry returns that container and changes nothing: the
\* registry, the container's agents, the persisted records and the emitted
\* notifications are as they were.
C28_CreateOrGet ==
    [][(container'.returned.op = "create"
          /\ has(container.registry, container'.returned.containerId))
         => /\ container'.returned.result = "existing"
            /\ container' = [container EXCEPT !.returned = container'.returned]
      ]_vars

\* C28 witness: create has returned the existing container, which holds an
\* agent.
C28_Witness ==
    /\ container.returned.op = "create"
    /\ container.returned.result = "existing"
    /\ container.agents[container.returned.containerId] # << >>

\* C29: when RuntimeImpl.dispose() completes, the container registry is
\* empty, no container holds an agent, and every agent that was run has
\* lifecycle destroyed.
C29_RuntimeDisposeCleansUp ==
    (container.returned.op = "runtime.dispose" /\ container.returned.result = "done")
       => /\ container.registry = << >>
          /\ \A c \in ContainerIds : container.agents[c] = << >>
          /\ \A a \in 1..Len(container.lifecycle) : container.lifecycle[a] = "destroyed"

\* C35: no agent outlives its container: a container that is not in the live
\* registry (it has been disposed, or was never created) holds no agent.
C35_NoAgentOutlivesContainer ==
    \A c \in ContainerIds :
        ~has(container.registry, c) => container.agents[c] = << >>

\* C36: agent_unregistered is emitted at most once for an agent, however the
\* destroyAgent calls for it interleave.
C36_UnregisteredAtMostOnce ==
    \A c \in ContainerIds, a \in AgentNums :
        CopiesIn([type |-> "agent_unregistered", containerId |-> c, agentId |-> a],
                 container.emitted) <= 1

\* C38: the MirrorContainer's agentCount equals the number of agents in its
\* map, and every agent in the map has a lifecycle other than destroyed.
C38_RegistryInvariant ==
    /\ mirrorAgents.agentCount = size(mirrorAgents.agents)
    /\ \A a \in AgentIds :
          mirrorAgents.agents[a] # 0
             => /\ mirrorAgents.objs[mirrorAgents.agents[a]].lifecycle # "destroyed"
                /\ mirrorAgents.objs[mirrorAgents.agents[a]].agentId = a

\* C38 witness: after a removal the container still holds an agent, and one
\* of the agents it constructed is destroyed.
C38_Witness ==
    /\ mirrorAgents.lastOp.op \in {"removeAgent", "agent_destroyed", "destroy"}
    /\ mirrorAgents.lastOp.obj # 0
    /\ mirrorAgents.agentCount >= 1
    /\ \E o \in 1..Len(mirrorAgents.objs) : mirrorAgents.objs[o].lifecycle = "destroyed"

\* The types of the events handleServerEvent forwards to an agent.
ForwardedTypes ==
    {"message_start", "text_delta", "tool_call", "tool_result", "message_stop",
     "interrupted", "agent_stopped", "agent_resumed"}

\* C39: the delivery of a forwarded server event changes at most the
\* MirrorAgent the container's map holds under the event's agentId, whose own
\* agentId is that id; an event with no agentId or for an agent not in the
\* map changes no agent, and the map is as it was.
C39_EventRouting ==
    [][mirrorAgents'.lastOp.op \in ForwardedTypes
         => LET a == mirrorAgents'.lastOp.agentId
            IN  /\ mirrorAgents'.agents = mirrorAgents.agents
                /\ Len(mirrorAgents'.objs) = Len(mirrorAgents.objs)
                /\ \A o \in 1..Len(mirrorAgents.objs) :
                      mirrorAgents'.objs[o] # mirrorAgents.objs[o]
                         => /\ a # NoId
                            /\ mirrorAgents.agents[a] = o
                            /\ mirrorAgents.objs[o].agentId = a
      ]_vars

\* C39 witness: the container holds two agents, a stream event for one of
\* them has just been handled by it, and the other is in another state.
C39_Witness ==
    /\ mirrorAgents.lastOp.op \in {"message_start", "text_delta", "tool_call"}
    /\ mirrorAgents.lastOp.obj # 0
    /\ mirrorAgents.agentCount = 2
    /\ \E a \in AgentIds :
          /\ mirrorAgents.agents[a] # 0
          /\ mirrorAgents.agents[a] # mirrorAgents.lastOp.obj
          /\ mirrorAgents.objs[mirrorAgents.agents[a]].state
                # mirrorAgents.objs[mirrorAgents.lastOp.obj].state

\* C34: an exchange during which interrupt() has been called eventually
\* terminates, whatever the backend emits afterwards.
C34_InterruptedExchangeTerminates ==
    \A d \in Agents :
        (driver[d].interruptAt # -1 /\ driver[d].pc \in {"waiting", "yielded"})
           ~> (driver[d].pc \in {"done", "threw", "returned"})

\* The calls emit made to a handler for event number n.
CallsFor(s, n, handler) ==
    Len(SelectSeq(s.calls, LAMBDA c : c = <<n, handler>>))

\* The registrations of a handler that an event of a type is for and whose
\* unsubscribe function has not been called.
ActiveRegistrations(s, type, handler) ==
    Cardinality({r \in 1..Len(s.registrations) :
                    /\ s.registrations[r].handler = handler
                    /\ s.registrations[r].type \in {type, "*"}
                    /\ s.registrations[r].active})

\* C31: an emit calls every handler exactly once for each of its current
\* registrations for the event's type or for all events, and no handler
\* whose registrations have all been unsubscribed.
C31_EventFanOut ==
    [][Len(runtimeEvents'.events) = Len(runtimeEvents.events) + 1
         => LET n == Len(runtimeEvents'.events)
            IN  \A handler \in Handlers :
                   CallsFor(runtimeEvents', n, handler)
                      = ActiveRegistrations(runtimeEvents, runtimeEvents'.events[n], handler)
      ]_vars

\* The indices of the events of a type (user or not) among events
\* from + 1 .. to, in order.
EventsBetween(from, to, user) ==
    SelectSeq([k \in 1..(to - from) |-> from + k],
              LAMBDA i : (agentBus.events[i] = "user") = user)

\* C32: what the subscriber of outbound() has received is the last
\* ReplayBufferSize user events emitted before it subscribed followed by the
\* user events emitted since, in emission order; what the subscriber of
\* inbound() has received contains no user event.
C32_OutboundReplay ==
    /\ (agentBus.outbound.subscribed \/ agentBus.outbound.received # << >>)
          => agentBus.outbound.received
                = lastN(EventsBetween(0, agentBus.outbound.at, TRUE), ReplayBufferSize)
                  \o EventsBetween(agentBus.outbound.at, Len(agentBus.events), TRUE)
    /\ \A k \in 1..Len(agentBus.inbound.received) :
          agentBus.events[agentBus.inbound.received[k]] # "user"
    /\ agentBus.inbound.subscribed
          => agentBus.inbound.received
                = EventsBetween(agentBus.inbound.at, Len(agentBus.events), FALSE)

\* C32 witness: the provider subscribed after more user events than the
\* buffer holds had been emitted, and received the last ReplayBufferSize of
\* them, the first user event being lost; the inbound subscriber, subscribed
\* before the first emit, has received nothing.
C32_Witness ==
    /\ Len(agentBus.outbound.received) = ReplayBufferSize
    /\ agentBus.outbound.at > ReplayBufferSize
    /\ agentBus.events[1] = "user"
    /\ agentBus.outbound.received[1] = 2
    /\ agentBus.inbound.subscribed /\ agentBus.inbound.at = 0
    /\ agentBus.inbound.received = << >>

\* C33: a destroy() calls destroy() on the initialized reactors in the
\* reverse of the order in which their initialize() was fulfilled, whether
\* or not the calls before were fulfilled: while it is suspended it has
\* called a prefix of that order and awaits the reactor that follows it, and
\* when it completes it has called all of it.
C33_DestroyReverseOrder ==
    [][LET expected == reverse(reactorRegistry.initLog)
           called == [k \in 1..Len(reactorRegistry'.destroyCalls) |->
                        reactorRegistry'.destroyCalls[k].id]
       IN  /\ reactorRegistry'.pc = "destroy"
                => /\ Len(called) < Len(expected)
                   /\ called = SubSeq(expected, 1, Len(called))
                   /\ reactorRegistry'.order[reactorRegistry'.i] = expected[Len(called) + 1]
           /\ (reactorRegistry.pc = "destroy" /\ reactorRegistry'.pc = "idle")
                => called = expected]_vars

\* C33 witness: three reactors were initialized, destroy() has completed, the
\* first reactor.destroy() it called was rejected and the two after it were
\* called all the same.
C33_Witness ==
    /\ reactorRegistry.pc = "idle"
    /\ reactorRegistry.destroys = 1
    /\ Len(reactorRegistry.initLog) = 3
    /\ Len(reactorRegistry.destroyCalls) = 3
    /\ ~reactorRegistry.destroyCalls[1].ok
    /\ reactorRegistry.destroyCalls[1].id = reactorRegistry.initLog[3]
    /\ reactorRegistry.destroyCalls[3].id = reactorRegistry.initLog[1]

\* C37: there is at most one container object per containerId: two
\* MirrorContainer objects that containers.create calls were resolved with
\* for one containerId are the same object, the one containers.get returns.
C37_OneContainerPerId ==
    \A o \in 1..Len(mirror.cobjs) :
        mirror.containers[mirror.cobjs[o].containerId] = o

\* C40: a sendMessage stream that is in flight when abort() or destroy() is
\* called eventually terminates (returns or throws), whether or not a
\* message_stop is received.
C40_StoppedStreamTerminates ==
    (wsDriver.stopped /\ wsDriver.pc \in {"connecting", "waiting", "yielded"})
        ~> (wsDriver.pc \in {"done", "thrown"})

====
